---------------------------- MODULE Spec2Model ----------------------------
(***************************************************************************)
(* State-machine model of the telemetry backend:                           *)
(*   - live_counters.py: process_pack_out_sample (in-memory day counters)  *)
(*   - alarm_logic.py: check_alarm with the bucket debounce and the        *)
(*     door-open timer                                                     *)
(*   - alarm_aggregation_scheduler.py: the scheduler loop and its          *)
(*     start/stop API                                                      *)
(*   - daily_counters.py: the window statistics of one device and the      *)
(*     job over all devices                                                *)
(* Each component has its own specification (SpecLive, SpecBucket,         *)
(* SpecScalar, SpecDoor, SpecSched, SpecWindow, SpecDaily); the variables  *)
(* of the other components stay at their initial value.                    *)
(*                                                                         *)
(* Python's None and float('nan') are modelled as the empty sequence and a *)
(* present value x as <<x>>.                                               *)
(***************************************************************************)
EXTENDS Integers, Sequences, FiniteSets, TLC

VARIABLES
  \* live_counters.py
  inmem,            \* _inmem: store key -> (field -> int)
  state_inmem,      \* _state_inmem: device_id -> last sample state
  lc_call,          \* history: the last call of process_pack_out_sample and
                    \* the door and floor stored before it
  flush,            \* the call of flush_day_to_tb in progress, or the last one
  pack,             \* the values of one pack_out and what the parsers returned
                    \* for its encodings
  \* alarm_logic.py
  bucket_counts,    \* device -> key -> list of [center, count]
  device_door_state,\* device -> bool (partial)
  door_open_since,  \* device -> monotonic seconds (partial)
  mono,             \* time.monotonic()
  req,              \* history: the last check_alarm request and what it did
  obs_log,          \* history: bucket observations per device and key
  door_hist,        \* history: per device door session bookkeeping
  \* alarm_aggregation_scheduler.py
  stop_event,       \* _stop_event.is_set()
  thread,           \* _thread: <<>> or <<t>>
  loop_started,     \* _loop_started
  pc,               \* thread id -> position of that thread
  loc,              \* thread id -> locals of _run_loop (now, next_alarm, next_daily)
  wall,             \* time.time()
  stoppers,         \* position of the stop_scheduler call in progress
  sched_hist,       \* history: bookkeeping of scheduler events
  \* daily_counters.py
  daily,            \* run_once_over_window: position, locals and history
  win,              \* one call of compute_window_stats_for_device: the series
                    \* fetched and the value returned
  \* the webhook endpoints on the event loop
  inflight,         \* delivery -> the request being handled and its position
  running,          \* the delivery whose coroutine holds the event loop, or 0
  resp,             \* history: the last response of /calculated-telemetry/
  \* floor resolution
  rf                \* one call of resolveFloor: its arguments and its result

lcVars    == <<inmem, state_inmem, lc_call, flush, pack>>
alarmVars == <<bucket_counts, device_door_state, door_open_since, mono, req,
               obs_log, door_hist>>
schedVars == <<stop_event, thread, loop_started, pc, loc, wall, stoppers,
               sched_hist>>
dailyVars == <<daily, win>>
webVars   == <<inflight, running, resp>>
floorVars == <<rf>>
vars      == <<lcVars, alarmVars, schedVars, dailyVars, webVars, floorVars>>

None == <<>>
NaN  == <<>>
Some(x) == <<x>>

Abs(x) == IF x < 0 THEN -x ELSE x

\* d[k] if k is a key of the dict d, else dflt (dict.get)
Get(d, k, dflt) == IF k \in DOMAIN d THEN d[k] ELSE dflt

\* the dict d with d[k] = v
Put(d, k, v) == [x \in DOMAIN d \cup {k} |-> IF x = k THEN v ELSE d[x]]

\* the dict d without key k (dict.pop(k, None))
Pop(d, k) == [x \in DOMAIN d \ {k} |-> d[x]]

EmptyDict == [x \in {} |-> 0]

-----------------------------------------------------------------------------
(***************************************************************************)
(* live_counters.py                                                        *)
(***************************************************************************)

Devices == {"d1"}

\* timestamps (epoch ms) a sample may carry: 0 .. MaxTs
MaxTs == 3
\* length of a local day in the model's ms
DayMs == 2

LC_ENABLED == TRUE
LC_MOVEMENT_THRESHOLD_MM == 50

FloorLabels == {"G", "1"}
\* parsed floor label: None, the empty string, or a label
FloorInputs == {None, Some("")} \cup {Some(f) : f \in FloorLabels}
\* parsed height: nan or a number of millimetres
HeightInputs == {NaN, Some(0), Some(120)}
\* parsed door state: None, True or False
DoorInputs == {None, Some(TRUE), Some(FALSE)}

local_date_str(ts_ms) == ts_ms \div DayMs

movement(prev_h, h, thr) ==
  IF prev_h = NaN \/ h = NaN THEN FALSE
  ELSE Abs(h[1] - prev_h[1]) > thr

door_key(date_str, device_id) == <<date_str, device_id, "door">>
idle_key(date_str, device_id) == <<date_str, device_id, "idle_ms">>

\* _hinc on the store s
hinc(s, store_key, field, delta) ==
  LET h == Get(s, store_key, EmptyDict)
  IN  Put(s, store_key, Put(h, field, Get(h, field, 0) + delta))

\* Python truthiness of an optional string: None and "" are falsy
Truthy(s) == s # None /\ s[1] # ""

\* fl or last_floor or "UNKNOWN"
FloorOr(fl, last_floor) ==
  IF Truthy(fl) THEN fl[1]
  ELSE IF Truthy(last_floor) THEN last_floor[1]
  ELSE "UNKNOWN"

\* the state written at the end of an accepted sample
NewState(ts_ms, fl, h, dopen, last_floor, last_door) ==
  [ts    |-> ts_ms,
   floor |-> FloorOr(fl, last_floor),
   h     |-> h,
   door  |-> IF dopen = Some(TRUE) THEN "1"
             ELSE IF dopen = Some(FALSE) THEN "0"
             ELSE IF Truthy(last_door) THEN last_door[1] ELSE ""]

\* the ordering guard of process_pack_out_sample: the sample is dropped
DupGuardStrict(ts_ms, last_ts) == ts_ms < last_ts
DupGuard(ts_ms, last_ts) == ts_ms <= last_ts

\* the floor an idle gap is credited to
IdleFieldPrev(fl, last_floor) == FloorOr(last_floor, fl)
IdleField(fl, last_floor) == FloorOr(fl, last_floor)

\* the door condition of the idle accumulation
IdleDoorsLoose(dopen, last_door_bool) == dopen = Some(FALSE)
IdleDoors(dopen, last_door_bool) ==
  dopen = Some(FALSE) /\ last_door_bool = Some(FALSE)

\* the counters after an accepted sample
CountersAfter(s, device_id, ts_ms, fl, h, dopen, last_ts, last_floor, last_h, last_door_bool) ==
  LET date_str == local_date_str(ts_ms)
      field    == FloorOr(fl, last_floor)
      s1 == IF last_door_bool = Some(FALSE) /\ dopen = Some(TRUE)
            THEN hinc(s, door_key(date_str, device_id), field, 1)
            ELSE s
      dt == ts_ms - last_ts
  IN  IF /\ IdleDoors(dopen, last_door_bool)
         /\ ~movement(last_h, h, LC_MOVEMENT_THRESHOLD_MM)
         /\ dt > 0
      THEN hinc(s1, idle_key(date_str, device_id),
                IdleField(fl, last_floor), dt)
      ELSE s1

\* process_pack_out_sample on the counters s and the sample states st: the
\* counters and states it leaves and the record of the call
LiveAfter(s, st, device_id, ts_ms, fl, h, dopen) ==
  LET has        == device_id \in DOMAIN st
      state      == IF has THEN st[device_id] ELSE EmptyDict
      last_ts    == IF has THEN state.ts ELSE 0
      last_floor == IF has THEN Some(state.floor) ELSE None
      last_h     == IF has THEN state.h ELSE NaN
      last_door  == IF has THEN Some(state.door) ELSE None
      last_door_bool == IF last_door = None THEN None
                        ELSE Some(last_door[1] = "1")
      result == IF ~LC_ENABLED THEN "disabled"
                ELSE IF fl = None /\ h = NaN /\ dopen = None THEN "nothing"
                ELSE IF DupGuard(ts_ms, last_ts) THEN "dup"
                ELSE "accepted"
  IN  [call |-> [dev |-> device_id, ts |-> ts_ms, result |-> result,
                 prev_door |-> IF has THEN state.door ELSE "none",
                 prev_floor |-> IF has THEN state.floor ELSE "none"],
       inmem |-> IF result = "accepted"
                 THEN CountersAfter(s, device_id, ts_ms, fl, h, dopen,
                                    last_ts, last_floor, last_h,
                                    last_door_bool)
                 ELSE s,
       state_inmem |-> IF result = "accepted"
                       THEN Put(st, device_id,
                                NewState(ts_ms, fl, h, dopen, last_floor,
                                         last_door))
                       ELSE st]

process_pack_out_sample(device_id, ts_ms, fl, h, dopen) ==
  \E r \in {LiveAfter(inmem, state_inmem, device_id, ts_ms, fl, h, dopen)} :
    /\ lc_call' = r.call /\ UNCHANGED <<flush, pack>>
    /\ inmem' = r.inmem
    /\ state_inmem' = r.state_inmem
    /\ UNCHANGED <<alarmVars, schedVars, dailyVars, webVars, floorVars>>

\* no pack_out parsed yet
NoPack == [v |-> [fl |-> "absent", h |-> "absent", d |-> "absent"], out |-> EmptyDict]

NoFlush == [pc |-> "idle", date |-> 0, candidates |-> {}, todo |-> {}, attempted |-> {}, failed |-> {}, flushed |-> 0, last |-> [dev |-> "", write |-> "none"]]

LiveInit ==
  /\ flush = NoFlush
  /\ pack = NoPack
  /\ inmem = EmptyDict
  /\ state_inmem = EmptyDict
  /\ lc_call = [dev |-> "", ts |-> 0, result |-> "none", prev_door |-> "none",
                prev_floor |-> "none"]

(***************************************************************************)
(* flush_day_to_tb: the counters of one date are written to the platform,  *)
(* device by device, and cleared.  flush holds the call: the date, the     *)
(* candidate devices, those still to come in the loop, those attempted,    *)
(* those whose write failed, and the number flushed.                       *)
(***************************************************************************)

FlushDevices == {"d1", "d2"}
FlushDates == {0, 1}

\* what the outbound write of a device does: a status below 400, a status of
\* 400 or more, or an exception of requests.post
WriteOutcomes == {"ok", "error", "raised"}

\* the devices that have a door or idle counter for the date
Candidates(s, date_str) == {k[2] : k \in {x \in DOMAIN s : x[1] = date_str /\ x[3] \in {"door", "idle_ms"}}}

\* the counters are cleared whatever the write gave
ClearsCountersAlways(write) == write # "raised"

\* flushed is counted and the counters are cleared after a write that
\* succeeded
ClearsCounters(write) == write = "ok"

\* flush_day_to_tb(date_str) up to its loop
flush_day_to_tb(date_str, jwt_ok) ==
  /\ flush.pc # "loop"
  /\ \E c \in {Candidates(inmem, date_str)} :
       flush' = [NoFlush EXCEPT !.date = date_str, !.candidates = c, !.todo = c,
                                !.pc = IF c = {} THEN "done" ELSE IF jwt_ok THEN "loop" ELSE "raised"]
  /\ UNCHANGED <<inmem, state_inmem, lc_call, pack, alarmVars, schedVars, dailyVars, webVars, floorVars>>

\* one pass of the loop over the candidates
flush_device(device_id, write) ==
  /\ flush.pc = "loop"
  /\ device_id \in flush.todo
  /\ flush' = [flush EXCEPT !.todo = @ \ {device_id},
                            !.attempted = @ \cup {device_id},
                            !.failed = IF write = "ok" THEN @ ELSE @ \cup {device_id},
                            !.flushed = IF ClearsCounters(write) THEN @ + 1 ELSE @,
                            !.last = [dev |-> device_id, write |-> write],
                            !.pc = IF write = "raised" THEN "raised"
                                   ELSE IF flush.todo = {device_id} THEN "done" ELSE "loop"]
  /\ inmem' = IF ClearsCounters(write)
              THEN Pop(Pop(inmem, door_key(flush.date, device_id)), idle_key(flush.date, device_id))
              ELSE inmem
  /\ UNCHANGED <<state_inmem, lc_call, pack, alarmVars, schedVars, dailyVars, webVars, floorVars>>

FlushNext ==
  \/ \E date_str \in FlushDates, jwt_ok \in BOOLEAN : flush_day_to_tb(date_str, jwt_ok)
  \/ \E device_id \in FlushDevices, write \in WriteOutcomes : flush_device(device_id, write)

\* the counters a device can have for a date: none, door openings, idle time
\* or both, on floor G
CounterKinds == {"none", "door", "idle", "both"}

CountersOf(kinds) ==
  [k \in {x \in FlushDates \X FlushDevices \X {"door", "idle_ms"} :
            \/ x[3] = "door" /\ kinds[<<x[1], x[2]>>] \in {"door", "both"}
            \/ x[3] = "idle_ms" /\ kinds[<<x[1], x[2]>>] \in {"idle", "both"}} |->
     [f \in {"G"} |-> 1]]

(***************************************************************************)
(* The two encodings of pack_out and their parsers.  A Python value is a   *)
(* record of its type and content; a pack_out text is the encoding used    *)
(* and the fields it holds.  json.loads fails on a k=v text, and a JSON    *)
(* text holds no part with "=" for the k=v branch to find.                 *)
(***************************************************************************)

PyNone == [t |-> "none"]
PyNum(n) == [t |-> "num", v |-> n]
PyStr(x) == [t |-> "str", v |-> x]
PyBool(b) == [t |-> "bool", v |-> b]

\* the truth value of a Python value
PyTruthy(x) == IF x.t = "none" THEN FALSE ELSE IF x.t = "num" THEN x.v # 0 ELSE IF x.t = "str" THEN x.v # "" ELSE x.v

\* a or b
OrElse(a, b) == IF PyTruthy(a) THEN a ELSE b

\* d.get(k)
DictGet(d, k) == IF k \in DOMAIN d THEN d[k] ELSE PyNone

\* float(x) returns: x is a number or the text of one
Floats(x) == x.t = "num" \/ (x.t = "str" /\ x.v \in {"0", "60", "nan"})

\* float(x) where it returns
float(x) ==
  IF x.t = "num" THEN Some(x.v)
  ELSE IF x.v = "0" THEN Some(0)
  ELSE IF x.v = "60" THEN Some(60)
  ELSE NaN

\* str.upper() of the door texts
upper(x) == IF x = "true" THEN "TRUE" ELSE IF x = "false" THEN "FALSE" ELSE x

\* the values a pack_out reports: a floor label, a height and a door state,
\* each of which may be absent; the height abc is not a number
PackFloors == {"absent", "G", "1"}
PackHeights == {"absent", "0", "60", "abc"}
PackDoors == {"absent", "open", "closed"}
PackValues == [fl : PackFloors, h : PackHeights, d : PackDoors]

Present(v) == {k \in {"current_floor_label", "height_mm", "door_open"} : IF k = "current_floor_label" THEN v.fl # "absent" ELSE IF k = "height_mm" THEN v.h # "absent" ELSE v.d # "absent"}

\* the values as a JSON object: the label a string, the height a number (or
\* the string that is none), the door state a boolean
EncodeJson(v) ==
  [enc |-> "json",
   fields |-> [k \in Present(v) |->
                 IF k = "current_floor_label" THEN PyStr(v.fl)
                 ELSE IF k = "height_mm" THEN (IF v.h = "abc" THEN PyStr("abc") ELSE PyNum(float(PyStr(v.h))[1]))
                 ELSE PyBool(v.d = "open")]]

\* the values as k=v|k=v text
EncodeKv(v) ==
  [enc |-> "kv",
   fields |-> [k \in Present(v) |->
                 IF k = "current_floor_label" THEN PyStr(v.fl)
                 ELSE IF k = "height_mm" THEN PyStr(v.h)
                 ELSE PyStr(IF v.d = "open" THEN "true" ELSE "false")]]

Triple(fl, h, d) == [fl |-> fl, h |-> h, d |-> d]

\* the label returned for the value found under the floor keys
LabelOf(x) == IF PyTruthy(x) THEN Some(x.v) ELSE None

\* float(... or "nan") inside try/except of the k=v branch
FloatOrNan(x) == IF Floats(OrElse(x, PyStr("nan"))) THEN float(OrElse(x, PyStr("nan"))) ELSE NaN

\* daily_counters._safe_float
SafeFloat(x) == IF Floats(x) THEN float(x) ELSE NaN

\* _safe_float never raises
NeverRaises(x) == FALSE

\* float(h) in the JSON branch of _parse_pack_out is not guarded
FloatRaises(x) == ~Floats(x)

\* the conversion of the height in each parser's branches: float(h) and
\* float(... or "nan") in _parse_pack_out, _safe_float in
\* _extract_from_pack_out
JsonCoerce(parser, x) == IF parser = "live" THEN float(x) ELSE SafeFloat(x)
JsonRaises(parser, x) == IF parser = "live" THEN FloatRaises(x) ELSE NeverRaises(x)
KvCoerce(parser, x) == IF parser = "live" THEN FloatOrNan(x) ELSE SafeFloat(x)

\* the k=v branch of both parsers on the parts of the text
KvBranch(parts, parser) ==
  LET floor_label == OrElse(DictGet(parts, "current_floor_label"), DictGet(parts, "floor_label"))
      h  == OrElse(DictGet(parts, "height_mm"), OrElse(DictGet(parts, "height"), DictGet(parts, "height_raw")))
      dv == upper(OrElse(DictGet(parts, "door_open"), OrElse(DictGet(parts, "door_val"), PyStr(""))).v)
  IN  Triple(LabelOf(floor_label), KvCoerce(parser, h), IF dv # "" THEN Some(dv \in {"TRUE", "OPEN", "1"}) ELSE None)

\* the height found under the height keys of a JSON object
JsonHeight(j) == OrElse(DictGet(j, "height_mm"), OrElse(DictGet(j, "height"), DictGet(j, "height_raw")))

\* the JSON branch of both parsers, where the conversion of the height
\* returns
JsonBranch(j, parser) ==
  LET floor_label == OrElse(DictGet(j, "current_floor_label"), DictGet(j, "floor_label"))
      h == JsonHeight(j)
      height_mm == IF h # PyNone THEN JsonCoerce(parser, h) ELSE NaN
      door_open == IF "door_open" \in DOMAIN j THEN Some(PyTruthy(j["door_open"]))
                   ELSE IF "door_val" \in DOMAIN j THEN Some(upper(j["door_val"].v) = "OPEN")
                   ELSE None
  IN  Triple(LabelOf(floor_label), height_mm, door_open)

\* the pair of branches: JSON first, the k=v branch when json.loads or the
\* JSON branch raised
ParseWith(raw, parser) ==
  IF raw.enc = "json" /\ ~(JsonHeight(raw.fields) # PyNone /\ JsonRaises(parser, JsonHeight(raw.fields)))
  THEN JsonBranch(raw.fields, parser)
  ELSE KvBranch(IF raw.enc = "kv" THEN raw.fields ELSE EmptyDict, parser)

\* live_counters._parse_pack_out on a text
parse_pack_out_text(raw) == ParseWith(raw, "live")

\* daily_counters._extract_from_pack_out on a text
extract_from_pack_out_text(raw) == ParseWith(raw, "daily")

\* one call of a parser on one encoding of the values
parse_call(parser, enc) ==
  /\ <<parser, enc>> \notin DOMAIN pack.out
  /\ \E raw \in {IF enc = "json" THEN EncodeJson(pack.v) ELSE EncodeKv(pack.v)} :
       pack' = [pack EXCEPT !.out = Put(@, <<parser, enc>>, IF parser = "live" THEN parse_pack_out_text(raw) ELSE extract_from_pack_out_text(raw))]
  /\ UNCHANGED <<inmem, state_inmem, lc_call, flush, alarmVars, schedVars, dailyVars, webVars, floorVars>>

ParseNext == \E parser \in {"live", "daily"}, enc \in {"json", "kv"} : parse_call(parser, enc)

LiveNext ==
  \E device_id \in Devices, ts_ms \in 0..MaxTs, fl \in FloorInputs,
     h \in HeightInputs, dopen \in DoorInputs :
    process_pack_out_sample(device_id, ts_ms, fl, h, dopen)

-----------------------------------------------------------------------------
(***************************************************************************)
(* alarm_logic.py                                                          *)
(*                                                                         *)
(* check_alarm is one action: the handler is an async function without an  *)
(* await, so requests run one after the other.  Inside the handler the     *)
(* state is threaded through a context record ctx; once an exception is    *)
(* raised (ctx.raised) the remaining steps are skipped, and what was       *)
(* written before stays written.  An alarm counts as emitted when          *)
(* create_alarm_on_tb is called for it.  Model requests carry no           *)
(* current_floor_index, so the floor-mismatch step (lines 405-433) is not  *)
(* taken, and they come from accounts present in ACCOUNTS.                 *)
(***************************************************************************)

ZONE_MM == 50
BUCKET_COUNT_THRESHOLD == 3
DOOR_OPEN_THRESHOLD_SEC == 15

THRESHOLDS ==
  [k \in {"humidity", "temperature", "x_jerk", "y_jerk", "z_jerk", "x_vibe",
          "y_vibe", "z_vibe", "sound_db"} |->
     CASE k \in {"humidity", "temperature"} -> 50
       [] k \in {"x_jerk", "y_jerk", "x_vibe", "y_vibe"} -> 5
       [] k \in {"z_jerk", "z_vibe"} -> 15
       [] OTHER -> 80]

SCALAR_KEYS == <<"humidity", "temperature">>
BUCKET_KEYS == <<"x_jerk", "y_jerk", "z_jerk", "x_vibe", "y_vibe", "z_vibe",
                 "sound_db">>

\* What a call of create_alarm_on_tb does to its caller.  "returned": the
\* function returns (early return without a base URL, or after the POST,
\* whatever its answer).  "raised": get_device_id / create_alarm_on_tb call
\* get_admin_jwt(account_id, base), thingsboard_auth.get_admin_jwt takes no
\* parameter, and the TypeError is caught by neither.
CreateOutcomes == {"returned", "raised"}

\* door_open as the payload carries it, and parse_bool of it
RawDoor == {"None", "True", "False", "open", "closed", "1", "0", "maybe"}

parse_bool(value) ==
  CASE value = "None" -> None
    [] value = "True" -> Some(TRUE)
    [] value = "False" -> Some(FALSE)
    [] value \in {"open", "1"} -> Some(TRUE)
    [] value \in {"closed", "0"} -> Some(FALSE)
    [] OTHER -> None

\* create_alarm_on_tb: the alarm is handed to the platform client
create_alarm_on_tb(ctx, alarm_type, outcome) ==
  [ctx EXCEPT !.alarms = Append(@, alarm_type),
              !.raised = (outcome = "raised")]

\* index of the first bucket within ZONE_MM of height, 0 if there is none
LastMatch(buckets, height) ==
  LET hits == {i \in 1..Len(buckets) :
                 Abs(buckets[i].center - height) <= ZONE_MM}
  IN  IF hits = {} THEN 0
      ELSE CHOOSE i \in hits : \A j \in hits : i >= j

\* a match only within half the zone
FirstMatchNarrow(buckets, height) ==
  LET hits == {i \in 1..Len(buckets) :
                 2 * Abs(buckets[i].center - height) <= ZONE_MM}
  IN  IF hits = {} THEN 0
      ELSE CHOOSE i \in hits : \A j \in hits : i <= j

FirstMatch(buckets, height) ==
  LET hits == {i \in 1..Len(buckets) :
                 Abs(buckets[i].center - height) <= ZONE_MM}
  IN  IF hits = {} THEN 0
      ELSE CHOOSE i \in hits : \A j \in hits : i <= j

\* list.remove(x): the list without its first element equal to x
RemoveFirst(seq, x) ==
  LET hits == {i \in 1..Len(seq) : seq[i] = x}
      i == CHOOSE i \in hits : \A j \in hits : i <= j
  IN  IF hits = {} THEN seq
      ELSE [j \in 1..(Len(seq) - 1) |-> IF j < i THEN seq[j] ELSE seq[j + 1]]

\* the bucket list after a matched bucket reached the threshold and the alarm
\* was created
Consume(buckets, b) == RemoveFirst(buckets, b)

\* the count a matched bucket must reach to fire
FiresAtLate(count) == count > BUCKET_COUNT_THRESHOLD
FiresAt(count) == count >= BUCKET_COUNT_THRESHOLD

check_bucket_and_trigger(ctx, device, key, height, outcome) ==
  IF height = None THEN ctx
  ELSE
    LET dev_b   == Get(ctx.bc, device, EmptyDict)
        buckets == Get(dev_b, key, <<>>)
        i       == FirstMatch(buckets, height[1])
        pre     == {buckets[j].center : j \in 1..Len(buckets)}
        store(bs) == Put(ctx.bc, device, Put(dev_b, key, bs))
        entry(c, n, f) == [dev |-> device, key |-> key, h |-> height[1],
                           center |-> c, count |-> n, fired |-> f,
                           pre |-> pre,
                           list |-> [j \in 1..Len(buckets) |->
                                       buckets[j].center]]
    IN  IF i = 0
        THEN [ctx EXCEPT
                !.bc  = store(Append(buckets, [center |-> height[1],
                                               count |-> 1])),
                !.obs = Append(@, entry(height[1], 1, FALSE))]
        ELSE
          LET b    == [buckets[i] EXCEPT !.count = @ + 1]
              incd == [buckets EXCEPT ![i] = b]
          IN  IF FiresAt(b.count)
              THEN LET c1 == create_alarm_on_tb(
                               [ctx EXCEPT
                                  !.bc  = store(incd),
                                  !.obs = Append(@, entry(b.center, b.count,
                                                          TRUE))],
                               key, outcome)
                   IN  IF c1.raised THEN c1
                       ELSE [c1 EXCEPT !.bc = store(Consume(incd, b))]
              ELSE [ctx EXCEPT
                      !.bc  = store(incd),
                      !.obs = Append(@, entry(b.center, b.count, FALSE))]

value_of(payload, key) == Get(payload.vals, key, None)

\* the loop over ("humidity", "temperature") of check_alarm
RECURSIVE ScalarAlarms(_, _, _, _)
ScalarAlarms(ctx, payload, outcome, n) ==
  IF n > Len(SCALAR_KEYS) \/ ctx.raised THEN ctx
  ELSE LET k   == SCALAR_KEYS[n]
           val == value_of(payload, k)
       IN  ScalarAlarms(
             IF val # None /\ val[1] > THRESHOLDS[k]
             THEN create_alarm_on_tb(ctx, k, outcome)
             ELSE ctx,
             payload, outcome, n + 1)

\* the loop over the bucketed keys of check_alarm
RECURSIVE BucketedAlarms(_, _, _, _, _)
BucketedAlarms(ctx, device, payload, outcome, n) ==
  IF n > Len(BUCKET_KEYS) \/ ctx.raised THEN ctx
  ELSE LET key == BUCKET_KEYS[n]
           val == value_of(payload, key)
       IN  BucketedAlarms(
             IF val # None /\ val[1] > THRESHOLDS[key]
             THEN check_bucket_and_trigger(ctx, device, key, payload.height,
                                           outcome)
             ELSE ctx,
             device, payload, outcome, n + 1)

\* the door state a request without door_open is given, were it taken as closed
DefaultDoorClosed(dds, device_name) == FALSE

\* the door state a request without door_open is given
DefaultDoor(dds, device_name) == Get(dds, device_name, FALSE)

\* the open-since marker after process_door_alarm saw the door closed
ClosedMarker(dos, device_name) == Pop(dos, device_name)

\* the comparison of the open duration with the threshold
DoorDueEarly(duration) == duration >= DOOR_OPEN_THRESHOLD_SEC - 5
DoorDue(duration) == duration >= DOOR_OPEN_THRESHOLD_SEC

process_door_alarm(ctx, device_name, door_open_in, now, outcome) ==
  LET door_open == IF door_open_in = None
                   THEN DefaultDoor(ctx.dds, device_name)
                   ELSE door_open_in[1]
      c0 == [ctx EXCEPT
               !.dds = IF door_open_in = None THEN @
                       ELSE Put(@, device_name, door_open),
               !.door = Some(door_open)]
  IN  IF door_open
      THEN IF device_name \notin DOMAIN c0.dos
           THEN [c0 EXCEPT !.dos = Put(@, device_name, now)]
           ELSE IF DoorDue(now - c0.dos[device_name])
                THEN LET c1 == create_alarm_on_tb(c0, "Door Open Too Long",
                                                  outcome)
                     IN  IF c1.raised THEN c1
                         ELSE [c1 EXCEPT !.dos = Put(@, device_name, now)]
                ELSE c0
      ELSE [c0 EXCEPT !.dos = ClosedMarker(@, device_name)]

\* the module state of alarm_logic
AlarmState == [bc |-> bucket_counts, dds |-> device_door_state, dos |-> door_open_since]

\* the context of a handler that starts on the state st
StartCtx(st) == [bc |-> st.bc, dds |-> st.dds, dos |-> st.dos, alarms |-> <<>>, raised |-> FALSE, obs |-> <<>>, door |-> None]

\* door_bool of check_alarm
DoorBool(dds, deviceName, payload) ==
  LET parsed == parse_bool(payload.door_open)
  IN  IF parsed = None THEN DefaultDoor(dds, deviceName) ELSE parsed[1]

\* the body of check_alarm for a known account, run at time now on the state st
RunCheckAlarmOn(st, now, deviceName, payload, outcome) ==
  LET ctx0 == StartCtx(st)
      door_bool == DoorBool(st.dds, deviceName, payload)
      ctx1 == ScalarAlarms(ctx0, payload, outcome, 1)
      ctx2 == BucketedAlarms(ctx1, deviceName, payload, outcome, 1)
  IN  IF ctx2.raised THEN ctx2
      ELSE process_door_alarm(ctx2, deviceName, Some(door_bool), now, outcome)

\* the body of check_alarm for a known account
RunCheckAlarm(deviceName, payload, outcome) == RunCheckAlarmOn(AlarmState, mono, deviceName, payload, outcome)

\* history of the door reports and alarms of one device
NoDoorHist == [rep |-> "none", rep_at |-> None, sess |-> None,
               last_fire |-> None, nfire |-> 0, ended |-> None]

DoorFired(ctx) ==
  \E i \in 1..Len(ctx.alarms) : ctx.alarms[i] = "Door Open Too Long"

DoorHistAfter(h, parsed, ctx, now) ==
  LET \* request level: what the payload reported
      h1 == IF parsed = Some(TRUE)
            THEN [h EXCEPT !.rep = "open",
                           !.rep_at = IF h.rep = "open" THEN @ ELSE Some(now)]
            ELSE IF parsed = Some(FALSE)
            THEN [h EXCEPT !.rep = "closed", !.rep_at = None]
            ELSE h
  IN  \* timer level: what process_door_alarm was called with
      IF ctx.door = None THEN h1
      ELSE IF ctx.door[1]
      THEN [h1 EXCEPT
              !.sess = IF @ = None THEN Some(now) ELSE @,
              !.last_fire = IF DoorFired(ctx) THEN Some(now) ELSE @,
              !.nfire = IF DoorFired(ctx) /\ @ < 2 THEN @ + 1 ELSE @]
      ELSE [h1 EXCEPT
              !.sess = None, !.last_fire = None, !.nfire = 0,
              !.ended = IF h1.sess = None THEN @
                        ELSE Some([long |-> now - h1.sess[1]
                                              >= DOOR_OPEN_THRESHOLD_SEC,
                                   nfire |-> h1.nfire])]

LogAfter(log, obs) ==
  [k \in DOMAIN log \cup {<<obs[i].dev, obs[i].key>> : i \in 1..Len(obs)} |->
     Get(log, k, <<>>) \o SelectSeq(obs, LAMBDA e : <<e.dev, e.key>> = k)]

check_alarm(deviceName, payload, outcome) ==
  \E ctx \in {RunCheckAlarm(deviceName, payload, outcome)},
     parsed \in {parse_bool(payload.door_open)} :
    /\ bucket_counts' = ctx.bc
    /\ device_door_state' = ctx.dds
    /\ door_open_since' = ctx.dos
    /\ req' = [seq |-> 1 - req.seq, dev |-> deviceName,
               door_in |-> parsed, door |-> ctx.door,
               alarms |-> ctx.alarms,
               scalars |-> {k \in {"humidity", "temperature"} :
                              /\ value_of(payload, k) # None
                              /\ value_of(payload, k)[1] > THRESHOLDS[k]},
               status |-> IF ctx.raised THEN 500 ELSE 200]
    /\ obs_log' = LogAfter(obs_log, ctx.obs)
    /\ door_hist' = Put(door_hist, deviceName,
                        DoorHistAfter(Get(door_hist, deviceName, NoDoorHist),
                                      parsed, ctx, mono))
    /\ UNCHANGED <<mono, lcVars, dailyVars, webVars, floorVars, schedVars>>

(***************************************************************************)
(* The floor-mismatch step of check_alarm, for requests that carry a       *)
(* current_floor_index.  fl gives the index and what the platform does:    *)
(* the device lookup (found, missing, or the token call raising) and the   *)
(* floor_boundaries attribute (a list, absent, malformed, or the token     *)
(* call raising).                                                          *)
(***************************************************************************)

TOLERANCE_MM == 10

FloorIndexes == {None, Some(-1), Some(0), Some(2)}
DeviceLookups == {"found", "missing", "raised"}
BoundaryAttrs == {"list", "absent", "malformed", "raised"}
MismatchHeights == {None, Some(10), Some(11)}

\* the attribute is asked for only once the device is found
FloorInputsOf == {f \in [cfi : FloorIndexes, lookup : DeviceLookups, attr : BoundaryAttrs] : f.lookup # "found" => f.attr = "absent"}

\* get_floor_boundaries once it has its token: the list, or None
get_floor_boundaries(attr) == IF attr = "list" THEN Some(<<0, 100>>) ELSE None

\* abs(deviation) > TOLERANCE_MM
Deviates(deviation) == Abs(deviation) > TOLERANCE_MM

floor_mismatch_detected(height, current_floor_index, floor_boundaries) ==
  IF height = None \/ current_floor_index = None \/ floor_boundaries = None THEN FALSE
  ELSE IF current_floor_index[1] < 0 \/ current_floor_index[1] >= Len(floor_boundaries[1]) THEN FALSE
  ELSE Deviates(height[1] - floor_boundaries[1][current_floor_index[1] + 1])

\* lines 405-433 of check_alarm
FloorMismatchStep(ctx, payload, door_bool, fl, outcome) ==
  IF fl.cfi = None \/ ~door_bool THEN ctx
  ELSE IF fl.lookup = "raised" THEN [ctx EXCEPT !.raised = TRUE]
  ELSE IF fl.lookup = "missing" THEN ctx
  ELSE IF fl.attr = "raised" THEN [ctx EXCEPT !.raised = TRUE]
  ELSE IF floor_mismatch_detected(payload.height, fl.cfi, get_floor_boundaries(fl.attr))
       THEN create_alarm_on_tb(ctx, "Floor Mismatch Alarm", outcome)
       ELSE ctx

\* the body of check_alarm for a request with a floor index
RunCheckAlarmFloor(st, now, deviceName, payload, fl, outcome) ==
  LET door_bool == DoorBool(st.dds, deviceName, payload)
      ctx1 == ScalarAlarms(StartCtx(st), payload, outcome, 1)
      ctx2 == IF ctx1.raised THEN ctx1 ELSE BucketedAlarms(ctx1, deviceName, payload, outcome, 1)
      ctx3 == IF ctx2.raised THEN ctx2 ELSE FloorMismatchStep(ctx2, payload, door_bool, fl, outcome)
  IN  IF ctx3.raised THEN ctx3
      ELSE process_door_alarm(ctx3, deviceName, Some(door_bool), now, outcome)

check_alarm_floor(deviceName, payload, fl, outcome) ==
  \E ctx \in {RunCheckAlarmFloor(AlarmState, mono, deviceName, payload, fl, outcome)},
     parsed \in {parse_bool(payload.door_open)} :
    /\ bucket_counts' = ctx.bc
    /\ device_door_state' = ctx.dds
    /\ door_open_since' = ctx.dos
    /\ req' = [seq |-> 1 - req.seq, dev |-> deviceName, door_in |-> parsed, door |-> ctx.door,
               alarms |-> ctx.alarms, scalars |-> {}, status |-> IF ctx.raised THEN 500 ELSE 200,
               height |-> payload.height, fl |-> fl,
               door_bool |-> DoorBool(device_door_state, deviceName, payload)]
    /\ obs_log' = LogAfter(obs_log, ctx.obs)
    /\ door_hist' = Put(door_hist, deviceName, DoorHistAfter(Get(door_hist, deviceName, NoDoorHist), parsed, ctx, mono))
    /\ UNCHANGED <<mono, lcVars, dailyVars, webVars, floorVars, schedVars>>

AlarmInit ==
  /\ bucket_counts = EmptyDict
  /\ device_door_state = EmptyDict
  /\ door_open_since = EmptyDict
  /\ mono = 0
  /\ req = [seq |-> 0, dev |-> "", door_in |-> None, door |-> None,
            alarms |-> <<>>, scalars |-> {}, status |-> 0]
  /\ obs_log = EmptyDict
  /\ door_hist = EmptyDict

\* ---- bucket requests -------------------------------------------------------

\* bucket observations in one run
MaxObs == 4

AlarmDevices == {"d1"}
BucketHeights == {None, Some(0), Some(40), Some(80)}
\* the keys a model request may breach
ModelKeys == {"x_jerk", "sound_db"}

Payloads(keys, heights, doors, humid) ==
  {[height |-> h, door_open |-> d,
    vals |-> [k \in ks \cup hk |-> Some(THRESHOLDS[k] + 1)]] :
     h \in heights, d \in doors, ks \in SUBSET keys, hk \in SUBSET humid}

TotalObs ==
  LET RECURSIVE Sum(_)
      Sum(S) == IF S = {} THEN 0
                ELSE LET k == CHOOSE k \in S : TRUE
                     IN  Len(obs_log[k]) + Sum(S \ {k})
  IN  Sum(DOMAIN obs_log)

BucketNext ==
  /\ TotalObs < MaxObs
  /\ \E deviceName \in AlarmDevices,
        payload \in Payloads(ModelKeys, BucketHeights, {"None"}, {"humidity"}),
        outcome \in CreateOutcomes :
       check_alarm(deviceName, payload, outcome)

\* ---- scalar requests ---------------------------------------------------
\* requests with any of the two scalar keys, with or without a bucketed breach

ScalarNext ==
  /\ TotalObs < MaxObs
  /\ \E deviceName \in AlarmDevices,
        payload \in Payloads({"x_jerk"}, {None, Some(0), Some(40)}, {"None"},
                             {"humidity", "temperature"}),
        outcome \in CreateOutcomes :
       check_alarm(deviceName, payload, outcome)

\* ---- door requests ---------------------------------------------------------

\* seconds of one step of the monotonic clock, and the last instant modelled
ClockStep == 5
MaxMono == 20

Tick ==
  /\ mono + ClockStep <= MaxMono
  /\ mono' = mono + ClockStep
  /\ UNCHANGED <<bucket_counts, device_door_state, door_open_since, req,
                 obs_log, door_hist, lcVars, dailyVars, webVars, floorVars, schedVars>>

\* heights of which one lies within the zone of two others that are apart
OverlapHeights == {Some(0), Some(40), Some(60)}

\* requests that breach one bucketed key at those heights
FirstMatchNext ==
  /\ TotalObs < MaxObs
  /\ \E deviceName \in AlarmDevices, payload \in {p \in Payloads({"x_jerk"}, OverlapHeights, {"None"}, {}) : p.vals # EmptyDict}, outcome \in CreateOutcomes :
       check_alarm(deviceName, payload, outcome)

DoorNext ==
  \/ Tick
  \/ \E deviceName \in AlarmDevices,
        payload \in Payloads({}, {None}, RawDoor, {"humidity"}),
        outcome \in CreateOutcomes :
       check_alarm(deviceName, payload, outcome)

MismatchNext ==
  \E deviceName \in AlarmDevices, payload \in Payloads({}, MismatchHeights, {"None", "True", "False"}, {}), fl \in FloorInputsOf, outcome \in CreateOutcomes :
    check_alarm_floor(deviceName, payload, fl, outcome)

-----------------------------------------------------------------------------
(***************************************************************************)
(* alarm_aggregation_scheduler.py                                          *)
(*                                                                         *)
(* Every "with _state_lock:" block is one step.  A thread that runs        *)
(* _run_loop is at one of the positions                                    *)
(*   "init"     before the two due times are computed                      *)
(*   "check"    at the test of the while loop                              *)
(*   "alarm?"   at "if now >= next_alarm"                                  *)
(*   "in_alarm" inside _alarm_tick                                         *)
(*   "daily?"   at "if now >= next_daily"                                  *)
(*   "in_daily" inside _daily_stats_tick                                   *)
(*   "wait"     in _stop_event.wait(0.5)                                   *)
(*   "finally"  the loop has returned to scheduler(), before its finally   *)
(*   "dead"     the thread has ended                                       *)
(* and "idle" is a thread that was never started.  stop_scheduler calls do *)
(* not overlap each other; they interleave with everything else.           *)
(***************************************************************************)

\* the last instant of time.time() modelled
MaxWall == 2

\* TB_SCHEDULER_INTERVAL and TB_DAILY_STATS_INTERVAL_SEC as configured
ALARM_INTERVAL_SEC == 1
DAILY_INTERVAL_SEC == 2

\* the threads that can run _run_loop, each started at most once
Threads == {1, 2}
InTick == {"in_alarm", "in_daily"}
InLoop == {"init", "check", "alarm?", "in_alarm", "daily?", "in_daily", "wait"}

NoLoc == [kind |-> "", now |-> 0, next_alarm |-> 0, next_daily |-> 0]

is_alive(t) == pc[t] \notin {"idle", "dead"}

HasFree == \E t \in Threads : pc[t] = "idle"
Fresh == CHOOSE t \in Threads : pc[t] = "idle" /\ \A u \in Threads :
                                  pc[u] = "idle" => t <= u

\* the test of start_scheduler that makes it return without starting a loop
AlreadyRunning ==
  IF loop_started /\ thread # None THEN is_alive(thread[1]) ELSE FALSE

\* start_scheduler()
start_scheduler ==
  /\ IF AlreadyRunning
     THEN UNCHANGED <<stop_event, thread, loop_started, pc, loc, sched_hist>>
     ELSE /\ HasFree
          /\ stop_event' = FALSE
          /\ loop_started' = TRUE
          /\ thread' = Some(Fresh)
          /\ pc' = [pc EXCEPT ![Fresh] = "init"]
          /\ loc' = [loc EXCEPT ![Fresh].kind = "managed"]
          /\ sched_hist' = [sched_hist EXCEPT !.quiet = FALSE]
  /\ UNCHANGED <<wall, stoppers, lcVars, dailyVars, webVars, floorVars, alarmVars>>

\* scheduler(), called in a thread of its own: the first locked block
scheduler ==
  /\ IF loop_started
     THEN UNCHANGED <<stop_event, loop_started, pc, loc, sched_hist>>
     ELSE /\ HasFree
          /\ loop_started' = TRUE
          /\ stop_event' = FALSE
          /\ pc' = [pc EXCEPT ![Fresh] = "init"]
          /\ loc' = [loc EXCEPT ![Fresh].kind = "blocking"]
          /\ sched_hist' = [sched_hist EXCEPT !.quiet = FALSE]
  /\ UNCHANGED <<thread, wall, stoppers, lcVars, dailyVars, webVars, floorVars, alarmVars>>

\* scheduler(): the finally block after _run_loop returned
scheduler_finally(t) ==
  /\ pc[t] = "finally"
  /\ loop_started' = FALSE
  /\ stop_event' = TRUE
  /\ pc' = [pc EXCEPT ![t] = "dead"]
  /\ loc' = [loc EXCEPT ![t] = NoLoc]
  /\ UNCHANGED <<thread, wall, stoppers, sched_hist, lcVars, dailyVars, webVars, floorVars, alarmVars>>

\* _run_loop: the two due times
run_loop_init(t) ==
  /\ pc[t] = "init"
  /\ loc' = [loc EXCEPT ![t].next_alarm = wall + ALARM_INTERVAL_SEC,
                        ![t].next_daily = wall + DAILY_INTERVAL_SEC]
  /\ pc' = [pc EXCEPT ![t] = "check"]
  /\ UNCHANGED <<stop_event, thread, loop_started, wall, stoppers, sched_hist,
                 lcVars, dailyVars, webVars, floorVars, alarmVars>>

\* a loop that never looks at the flag
StopSeenNever(t) == FALSE

\* _stop_event.is_set() in the loop condition
StopSeen(t) == stop_event

\* _run_loop: "while not _stop_event.is_set(): now = time.time()"
run_loop_check(t) ==
  /\ pc[t] = "check"
  /\ IF StopSeen(t)
     THEN /\ pc' = [pc EXCEPT ![t] = IF loc[t].kind = "blocking"
                                     THEN "finally" ELSE "dead"]
          /\ loc' = [loc EXCEPT ![t] = IF loc[t].kind = "blocking"
                                       THEN [NoLoc EXCEPT !.kind = "blocking"]
                                       ELSE NoLoc]
     ELSE /\ pc' = [pc EXCEPT ![t] = "alarm?"]
          /\ loc' = [loc EXCEPT ![t].now = wall]
  /\ UNCHANGED <<stop_event, thread, loop_started, wall, stoppers, sched_hist,
                 lcVars, dailyVars, webVars, floorVars, alarmVars>>

\* _run_loop: "if now >= next_alarm" / "if now >= next_daily"
run_loop_due(t) ==
  /\ pc[t] \in {"alarm?", "daily?"}
  /\ pc' = [pc EXCEPT ![t] =
              IF pc[t] = "alarm?"
              THEN (IF loc[t].now >= loc[t].next_alarm THEN "in_alarm"
                    ELSE "daily?")
              ELSE (IF loc[t].now >= loc[t].next_daily THEN "in_daily"
                    ELSE "wait")]
  /\ UNCHANGED <<stop_event, thread, loop_started, loc, wall, stoppers,
                 sched_hist, lcVars, dailyVars, webVars, floorVars, alarmVars>>

\* the position of the loop after a tick handler raised an Exception (the
\* except clauses of lines 68 and 77 catch it)
AfterRaiseUncaught(t) == IF loc[t].kind = "blocking" THEN "finally" ELSE "dead"
AfterRaise(t) == IF pc[t] = "in_alarm" THEN "daily?" ELSE "wait"

\* _run_loop: a tick handler returns or raises; the finally clause sets the
\* next due time
run_loop_tick_end(t, raises) ==
  /\ pc[t] \in InTick
  /\ pc' = [pc EXCEPT ![t] = IF raises THEN AfterRaise(t)
                             ELSE IF pc[t] = "in_alarm" THEN "daily?"
                             ELSE "wait"]
  /\ loc' = IF pc[t] = "in_alarm"
            THEN [loc EXCEPT ![t].next_alarm = loc[t].now + ALARM_INTERVAL_SEC]
            ELSE [loc EXCEPT ![t].next_daily = loc[t].now + DAILY_INTERVAL_SEC]
  /\ sched_hist' = [sched_hist EXCEPT
                      !.ev = IF raises THEN "tick_raised" ELSE "tick_returned"]
  /\ UNCHANGED <<stop_event, thread, loop_started, wall, stoppers, lcVars, dailyVars, webVars, floorVars,
                 alarmVars>>

\* _run_loop: _stop_event.wait(0.5) returns
run_loop_wait(t) ==
  /\ pc[t] = "wait"
  /\ pc' = [pc EXCEPT ![t] = "check"]
  /\ UNCHANGED <<stop_event, thread, loop_started, loc, wall, stoppers,
                 sched_hist, lcVars, dailyVars, webVars, floorVars, alarmVars>>

\* stop_scheduler(): the first locked block
stop_scheduler_begin ==
  /\ stoppers = "none"
  /\ IF ~loop_started
     THEN /\ sched_hist' = [sched_hist EXCEPT !.quiet = TRUE]
          /\ UNCHANGED <<stop_event, stoppers>>
     ELSE /\ stop_event' = TRUE
          /\ stoppers' = "join"
          /\ UNCHANGED sched_hist
  /\ UNCHANGED <<thread, loop_started, pc, loc, wall, lcVars, dailyVars, webVars, floorVars, alarmVars>>

\* stop_scheduler(): "if _thread: _thread.join(timeout=5)" is over.  Without a
\* thread object there is nothing to join; the join returns when the thread
\* has ended, and its 5 s run out only on a loop that does not end promptly:
\* one inside a tick handler, or one that no longer sees the stop flag.
JoinOver ==
  IF thread = None THEN TRUE
  ELSE ~is_alive(thread[1]) \/ pc[thread[1]] \in InTick \/ ~stop_event

\* stop_scheduler(): the join and the second locked block
stop_scheduler_end ==
  /\ stoppers = "join"
  /\ JoinOver
  /\ thread' = None
  /\ loop_started' = FALSE
  /\ stoppers' = "none"
  /\ sched_hist' = [sched_hist EXCEPT !.quiet = TRUE]
  /\ UNCHANGED <<stop_event, pc, loc, wall, lcVars, dailyVars, webVars, floorVars, alarmVars>>

\* time.time() advances
WallTick ==
  /\ wall < MaxWall
  /\ wall' = wall + 1
  /\ UNCHANGED <<stop_event, thread, loop_started, pc, loc, stoppers,
                 sched_hist, lcVars, dailyVars, webVars, floorVars, alarmVars>>

SchedInit ==
  /\ stop_event = FALSE
  /\ thread = None
  /\ loop_started = FALSE
  /\ pc = [t \in Threads |-> "idle"]
  /\ loc = [t \in Threads |-> NoLoc]
  /\ wall = 0
  /\ stoppers = "none"
  /\ sched_hist = [ev |-> "none", quiet |-> FALSE]

SchedNext ==
  \/ start_scheduler
  \/ scheduler
  \/ stop_scheduler_begin
  \/ stop_scheduler_end
  \/ WallTick
  \/ \E t \in Threads :
       \/ run_loop_init(t)
       \/ run_loop_check(t)
       \/ run_loop_due(t)
       \/ \E raises \in BOOLEAN : run_loop_tick_end(t, raises)
       \/ run_loop_wait(t)
       \/ scheduler_finally(t)

(***************************************************************************)
(* daily_counters.py                                                       *)
(*                                                                         *)
(* A sample is what _extract_from_pack_out gives for one item of the       *)
(* series, with its timestamp: [ts, fl, h, d].  The series comes from the  *)
(* platform in any order.                                                  *)
(***************************************************************************)

MOVEMENT_THRESHOLD_MM == 50

\* samples in the series of one device
MaxSamples == 3

\* timestamps (epoch ms) of the samples
TsInputs == {0, 500, 120000}

\* what a sample carries besides its timestamp: no height with every floor
\* label and door state, or a closed door on floor G at one of three heights
SampleValues == {[fl |-> f, h |-> NaN, d |-> d] : f \in {None} \cup {Some(x) : x \in FloorLabels}, d \in DoorInputs} \cup {[fl |-> Some("G"), h |-> Some(x), d |-> Some(FALSE)] : x \in {0, 50, 120}}

\* the platform keeps one value of a key per timestamp
DistinctTs(n) == {t \in [1..n -> TsInputs] : \A i, j \in 1..n : i # j => t[i] # t[j]}

\* the series of the values v at the timestamps t, in the order received
SeriesOf(t, v) == [i \in DOMAIN t |-> [ts |-> t[i], fl |-> v[i].fl, h |-> v[i].h, d |-> v[i].d]]

movement_detected_ge(prev_h, h, threshold_mm) ==
  IF prev_h = NaN \/ h = NaN THEN FALSE
  ELSE Abs(h[1] - prev_h[1]) >= threshold_mm

movement_detected(prev_h, h, threshold_mm) ==
  IF prev_h = NaN \/ h = NaN THEN FALSE
  ELSE Abs(h[1] - prev_h[1]) > threshold_mm

\* rising edge: door CLOSED -> OPEN
RisingEdgeLoose(prev_door_open, dopen) ==
  prev_door_open # Some(TRUE) /\ dopen = Some(TRUE)

RisingEdge(prev_door_open, dopen) ==
  prev_door_open = Some(FALSE) /\ dopen = Some(TRUE)

\* samples.sort(key=lambda x: x[0]): a stable sort by timestamp
RECURSIVE InsertByTs(_, _)
InsertByTs(sorted, x) ==
  IF sorted = <<>> THEN <<x>>
  ELSE IF sorted[Len(sorted)].ts <= x.ts THEN Append(sorted, x)
  ELSE Append(InsertByTs(SubSeq(sorted, 1, Len(sorted) - 1), x),
              sorted[Len(sorted)])

\* the samples are walked in the order received
SortByTsReceived(series) == series

RECURSIVE SortByTs(_)
SortByTs(series) ==
  IF series = <<>> THEN <<>>
  ELSE InsertByTs(SortByTs(SubSeq(series, 1, Len(series) - 1)),
                  series[Len(series)])

\* dict[k] = dict.get(k, 0) + delta
Bump(dict, k, delta) == Put(dict, k, Get(dict, k, 0) + delta)

\* the loop over samples[1:] of compute_window_stats_for_device; acc holds
\* prev_ts, prev_floor, prev_h, prev_door_open, door_opens and idle_ms
RECURSIVE WalkSamples(_, _, _)
WalkSamples(samples, i, acc) ==
  IF i > Len(samples) THEN acc
  ELSE
    LET cur   == samples[i]
        dt    == cur.ts - acc.prev_ts
        floor == FloorOr(cur.fl, acc.prev_floor)
        opens == IF RisingEdge(acc.prev_door_open, cur.d)
                 THEN Bump(acc.door_opens, floor, 1)
                 ELSE acc.door_opens
        idle  == IF /\ cur.d = Some(FALSE)
                    /\ acc.prev_door_open = Some(FALSE)
                    /\ ~movement_detected(acc.prev_h, cur.h,
                                          MOVEMENT_THRESHOLD_MM)
                 THEN Bump(acc.idle_ms, floor, dt)
                 ELSE acc.idle_ms
    IN  WalkSamples(samples, i + 1,
                    [prev_ts |-> cur.ts, prev_floor |-> Some(floor),
                     prev_h |-> cur.h, prev_door_open |-> cur.d,
                     door_opens |-> opens, idle_ms |-> idle])

\* Python's round(ms / 1000.0): to the nearest second, a half to the even one
RoundSeconds(ms) ==
  LET q == ms \div 1000
      r == ms % 1000
  IN  IF r < 500 THEN q
      ELSE IF r > 500 THEN q + 1
      ELSE IF q % 2 = 0 THEN q ELSE q + 1

\* len(series) < 2: not enough data in the window
TooFewSamplesOne(series) == Len(series) < 1

TooFewSamples(series) == Len(series) < 2

\* compute_window_stats_for_device on the series fetched for a device that has
\* an id: None, or the statistics
compute_window_stats_for_device(series) ==
  IF TooFewSamples(series) THEN None
  ELSE
    LET samples == SortByTs(series)
        acc == WalkSamples(samples, 2,
                           [prev_ts |-> samples[1].ts,
                            prev_floor |-> samples[1].fl,
                            prev_h |-> samples[1].h,
                            prev_door_open |-> samples[1].d,
                            door_opens |-> EmptyDict, idle_ms |-> EmptyDict])
    IN  Some([door_opens |-> acc.door_opens,
              idle_sec |-> [f \in DOMAIN acc.idle_ms |->
                              RoundSeconds(acc.idle_ms[f])]])

NoWindow == [series |-> <<>>, done |-> FALSE, stats |-> None]

\* one call of compute_window_stats_for_device
WindowNext ==
  /\ ~win.done
  /\ win' = [win EXCEPT !.done = TRUE,
                        !.stats = compute_window_stats_for_device(win.series)]
  /\ UNCHANGED <<daily, lcVars, alarmVars, schedVars, webVars, floorVars>>

(***************************************************************************)
(* run_once_over_window: the job over the devices the platform lists.      *)
(* A device is named by the page it is listed on and its place on it.      *)
(***************************************************************************)

DAILY_STATS_LOOKBACK_SEC == 86400

\* pages of devices the platform lists
MaxPages == 2

\* devices on a page that has devices
PageSizes == {1, 2}

\* the listing: the number of devices on each page
Listings == UNION {[1..n -> PageSizes] : n \in 0..MaxPages}

\* the devices of a listing
DevicesOf(listing) == UNION {{<<p - 1, i>> : i \in 1..listing[p]} : p \in 1..Len(listing)}

ClosedAtG == [fl |-> Some("G"), h |-> NaN, d |-> Some(FALSE)]
OpenAtG == [fl |-> Some("G"), h |-> NaN, d |-> Some(TRUE)]

\* what tb_timeseries returns for a device: no sample, one sample, or a door
\* opening
JobSeries == {SeriesOf(<<>>, <<>>), SeriesOf(<<0>>, <<ClosedAtG>>), SeriesOf(<<0, 500>>, <<ClosedAtG, OpenAtG>>)}

NoVisit == [dev |-> <<>>, fetched |-> None, outcome |-> "none"]

NoJob == [pc |-> "idle", listing |-> <<>>, trailing |-> FALSE, page |-> 0, idx |-> 0, total_devices |-> 0, processed |-> 0, skipped_no_data |-> 0, results |-> <<>>, summary |-> None, cause |-> "none", written |-> {}, visited |-> {}, failed |-> 0, last |-> NoVisit]

\* the summary built after the page loop
Summary(j) == [date |-> "date_str", lookback_sec |-> DAILY_STATS_LOOKBACK_SEC, interval_sec |-> 86400, total_devices |-> j.total_devices, processed |-> j.processed, skipped_no_data |-> j.skipped_no_data]

\* leaving the page loop: the job returns {"summary": ..., "results": ...}
Finish(j) == [j EXCEPT !.pc = "done", !.summary = Some(Summary(j))]

\* the job after the except clause of the device loop, in place of the
\* logging: the exception ends the job
AfterDeviceRaiseAbort(j) == [j EXCEPT !.pc = "aborted"]

\* ... the device is counted as skipped
AfterDeviceRaiseSkipped(j) == [j EXCEPT !.skipped_no_data = @ + 1]

\* the job after the except clause of the device loop: the failure is logged
AfterDeviceRaise(j) == j

\* a device whose fetch or write raised
Raised(j, dev, fetched, outcome) == [AfterDeviceRaise(j) EXCEPT !.failed = @ + 1, !.last = [dev |-> dev, fetched |-> fetched, outcome |-> outcome]]

\* a device for which compute_window_stats_for_device returned None
Skipped(j, dev, fetched, outcome) == [j EXCEPT !.skipped_no_data = @ + 1, !.last = [dev |-> dev, fetched |-> fetched, outcome |-> outcome]]

\* a device whose statistics were written
Processed(j, dev, fetched, stats) == [j EXCEPT !.processed = @ + 1, !.results = Append(@, [deviceId |-> dev, door_opens |-> stats.door_opens, idle_sec |-> stats.idle_sec]), !.written = @ \cup {dev}, !.last = [dev |-> dev, fetched |-> fetched, outcome |-> "written"]]

\* the job is called: get_admin_jwt, then the counters are set
run_once_over_window(listing, trailing, jwt_ok) ==
  /\ daily.pc = "idle"
  /\ daily' = IF jwt_ok
              THEN [NoJob EXCEPT !.pc = "list", !.listing = listing, !.trailing = trailing]
              ELSE [NoJob EXCEPT !.pc = "aborted", !.cause = "jwt"]
  /\ UNCHANGED <<win, lcVars, alarmVars, schedVars, webVars, floorVars>>

\* tb_list_devices(jwt, page) and the test of the page's devices
list_page(raises) ==
  /\ daily.pc = "list"
  /\ LET size == IF daily.page < Len(daily.listing) THEN daily.listing[daily.page + 1] ELSE 0
     IN  daily' = IF raises THEN [daily EXCEPT !.pc = "aborted", !.cause = "list"]
                  ELSE IF size = 0 THEN Finish(daily)
                  ELSE [daily EXCEPT !.pc = "devices", !.idx = 1]
  /\ UNCHANGED <<win, lcVars, alarmVars, schedVars, webVars, floorVars>>

\* one pass of the loop over the devices of the page
visit_device(has_id, fetch, write_ok) ==
  /\ daily.pc = "devices"
  /\ daily.idx <= daily.listing[daily.page + 1]
  /\ LET dev == <<daily.page, daily.idx>>
         j0  == [daily EXCEPT !.total_devices = @ + 1, !.idx = @ + 1, !.visited = @ \cup {dev}]
         stats == IF has_id /\ fetch # None THEN compute_window_stats_for_device(fetch[1]) ELSE None
     IN  daily' = IF ~has_id THEN Skipped(j0, dev, None, "no_id")
                  ELSE IF fetch = None THEN Raised(j0, dev, None, "fetch_raised")
                  ELSE IF stats = None THEN Skipped(j0, dev, fetch, "no_data")
                  ELSE IF ~write_ok THEN Raised(j0, dev, fetch, "write_raised")
                  ELSE Processed(j0, dev, fetch, stats[1])
  /\ UNCHANGED <<win, lcVars, alarmVars, schedVars, webVars, floorVars>>

\* the page loop is left after its first page
HasNextNever(j) == FALSE

\* page_data.get("hasNext") is True, for the page the job is on
HasNext(j) == j.page + 1 < Len(j.listing) \/ j.trailing

\* after the last device of the page: hasNext
page_end ==
  /\ daily.pc = "devices"
  /\ daily.idx > daily.listing[daily.page + 1]
  /\ daily' = IF HasNext(daily) THEN [daily EXCEPT !.page = @ + 1, !.pc = "list"]
              ELSE Finish(daily)
  /\ UNCHANGED <<win, lcVars, alarmVars, schedVars, webVars, floorVars>>

DailyNext ==
  \/ \E listing \in Listings, trailing \in BOOLEAN, jwt_ok \in BOOLEAN : run_once_over_window(listing, trailing, jwt_ok)
  \/ \E raises \in BOOLEAN : list_page(raises)
  \/ \E has_id \in BOOLEAN, fetch \in {None} \cup {Some(s) : s \in JobSeries}, write_ok \in BOOLEAN : visit_device(has_id, fetch, write_ok)
  \/ page_end

NoResponse == [seq |-> 0, status |-> 0, fed |-> FALSE]


DailyInit ==
  /\ daily = NoJob
  /\ win = NoWindow

-----------------------------------------------------------------------------
-----------------------------------------------------------------------------
(***************************************************************************)
(* The webhook endpoints on the event loop                                 *)
(*                                                                         *)
(* check_alarm and calculated_telemetry are "async def" handlers: every    *)
(* delivery is a coroutine of the one event loop, and a coroutine keeps    *)
(* the loop until it awaits or returns.  The body of a request is awaited  *)
(* before the handler touches the module state ("queued"); after that      *)
(* neither handler awaits: their HTTP calls are blocking calls of          *)
(* requests.  The handlers are written here statement by statement:        *)
(*   check_alarm   "checks"  the scalar and bucketed loops up to the call  *)
(*                           of create_alarm_on_tb for a full bucket       *)
(*                 "remove"  buckets.remove(b) after that call returned    *)
(*                 "door"    process_door_alarm up to its call of          *)
(*                           create_alarm_on_tb                            *)
(*                 "reset"   door_open_since[device] = now after it        *)
(*   calculated_telemetry                                                  *)
(*                 "get"     _state_get: the copy of the last sample state *)
(*                 "apply"   the rest of process_pack_out_sample           *)
(* and "done" / "failed" are the answers 200 / 500.  Two deliveries for    *)
(* one device are in flight; they start from a state earlier requests      *)
(* left, within one second of the monotonic clock.  Requests breach at     *)
(* most one bucketed key and no scalar key.                                *)
(***************************************************************************)

Deliveries == {1, 2}

\* create_alarm_on_tb gives up the event loop while it waits for the platform
YieldsAtCreateAwaited == TRUE

YieldsAtCreate == FALSE

ConcDevice == "d1"
ConcKey == "x_jerk"

NoSample == [ts |-> 0, fl |-> None, h |-> NaN, d |-> None]
NoPayload == [height |-> None, door_open |-> "None", vals |-> EmptyDict]

\* the deliveries: check_alarm requests and pack_out samples
ConcRequests == {[kind |-> "alarm", payload |-> p, outcome |-> o, sample |-> NoSample] : p \in Payloads({ConcKey}, {Some(0), Some(80)}, {"None", "True", "False"}, {}), o \in CreateOutcomes} \cup {[kind |-> "live", payload |-> NoPayload, outcome |-> "returned", sample |-> [ts |-> t, fl |-> Some("G"), h |-> NaN, d |-> Some(d)]] : t \in {2, 3}, d \in BOOLEAN}

\* alarm_logic states earlier requests leave: nothing, or two breaches at
\* height 0 with the door reported open at time 0
PreAlarm == {[bc |-> EmptyDict, dds |-> EmptyDict, dos |-> EmptyDict], [bc |-> Put(EmptyDict, ConcDevice, Put(EmptyDict, ConcKey, <<[center |-> 0, count |-> 2]>>)), dds |-> Put(EmptyDict, ConcDevice, TRUE), dos |-> Put(EmptyDict, ConcDevice, 0)]}

\* live_counters states earlier samples leave: nothing, or one sample at ts 1
\* with the door closed on floor G
PreLive == {[inmem |-> EmptyDict, state_inmem |-> EmptyDict], [inmem |-> EmptyDict, state_inmem |-> Put(EmptyDict, ConcDevice, NewState(1, Some("G"), NaN, Some(FALSE), None, None))]}

Coroutine(r) == [r |-> r, pc |-> "queued", door_bool |-> FALSE, center |-> 0, view |-> None, status |-> 0]

\* the coroutine of delivery i changed to c, and the loop given to who
Moved(i, c, who) ==
  /\ inflight' = [inflight EXCEPT !.c[i] = c]
  /\ running' = who

\* the loop after a coroutine called create_alarm_on_tb and it returned
AfterCreate(i) == IF YieldsAtCreate THEN 0 ELSE i

\* the event loop starts or resumes the coroutine of delivery i
resume(i) ==
  /\ running = 0
  /\ inflight.c[i].pc \in {"queued", "remove", "reset"}
  /\ LET c == inflight.c[i]
     IN  Moved(i, IF c.pc # "queued" THEN c
                  ELSE IF c.r.kind = "alarm"
                  THEN [c EXCEPT !.pc = "checks", !.door_bool = DoorBool(device_door_state, ConcDevice, c.r.payload)]
                  ELSE [c EXCEPT !.pc = "get"], i)
  /\ UNCHANGED <<resp, lcVars, alarmVars, schedVars, dailyVars, floorVars>>

\* check_alarm: the loops over the scalar and the bucketed keys
a_checks(i) ==
  /\ running = i
  /\ inflight.c[i].pc = "checks"
  /\ LET c == inflight.c[i]
         ctx1 == ScalarAlarms(StartCtx(AlarmState), c.r.payload, c.r.outcome, 1)
         ctx2 == BucketedAlarms(ctx1, ConcDevice, c.r.payload, "raised", 1)
     IN  /\ bucket_counts' = ctx2.bc
         /\ IF ~ctx2.raised THEN Moved(i, [c EXCEPT !.pc = "door"], i)
            ELSE IF c.r.outcome = "raised" THEN Moved(i, [c EXCEPT !.pc = "failed", !.status = 500], 0)
            ELSE Moved(i, [c EXCEPT !.pc = "remove", !.center = ctx2.obs[Len(ctx2.obs)].center], AfterCreate(i))
  /\ UNCHANGED <<device_door_state, door_open_since, mono, req, obs_log, door_hist, resp, lcVars, schedVars, dailyVars, floorVars>>

\* check_bucket_and_trigger: buckets.remove(b)
a_remove(i) ==
  /\ running = i
  /\ inflight.c[i].pc = "remove"
  /\ LET c == inflight.c[i]
         dev_b == Get(bucket_counts, ConcDevice, EmptyDict)
         buckets == Get(dev_b, ConcKey, <<>>)
         hits == {j \in 1..Len(buckets) : buckets[j].center = c.center}
     IN  IF hits = {}
         THEN /\ Moved(i, [c EXCEPT !.pc = "failed", !.status = 500], 0)
              /\ UNCHANGED bucket_counts
         ELSE /\ Moved(i, [c EXCEPT !.pc = "door"], i)
              /\ bucket_counts' = Put(bucket_counts, ConcDevice, Put(dev_b, ConcKey, RemoveFirst(buckets, buckets[CHOOSE j \in hits : TRUE])))
  /\ UNCHANGED <<device_door_state, door_open_since, mono, req, obs_log, door_hist, resp, lcVars, schedVars, dailyVars, floorVars>>

\* process_door_alarm up to its call of create_alarm_on_tb
a_door(i) ==
  /\ running = i
  /\ inflight.c[i].pc = "door"
  /\ LET c == inflight.c[i]
         ctx == process_door_alarm(StartCtx(AlarmState), ConcDevice, Some(c.door_bool), mono, "raised")
     IN  /\ device_door_state' = ctx.dds
         /\ door_open_since' = ctx.dos
         /\ IF ~ctx.raised THEN Moved(i, [c EXCEPT !.pc = "done", !.status = 200], 0)
            ELSE IF c.r.outcome = "raised" THEN Moved(i, [c EXCEPT !.pc = "failed", !.status = 500], 0)
            ELSE Moved(i, [c EXCEPT !.pc = "reset"], AfterCreate(i))
  /\ UNCHANGED <<bucket_counts, mono, req, obs_log, door_hist, resp, lcVars, schedVars, dailyVars, floorVars>>

\* process_door_alarm: door_open_since[device_name] = now
a_reset(i) ==
  /\ running = i
  /\ inflight.c[i].pc = "reset"
  /\ door_open_since' = Put(door_open_since, ConcDevice, mono)
  /\ Moved(i, [inflight.c[i] EXCEPT !.pc = "done", !.status = 200], 0)
  /\ UNCHANGED <<bucket_counts, device_door_state, mono, req, obs_log, door_hist, resp, lcVars, schedVars, dailyVars, floorVars>>

\* process_pack_out_sample: state = _state_get(device_id)
l_get(i) ==
  /\ running = i
  /\ inflight.c[i].pc = "get"
  /\ Moved(i, [inflight.c[i] EXCEPT !.pc = "apply", !.view = IF ConcDevice \in DOMAIN state_inmem THEN Some(state_inmem[ConcDevice]) ELSE None], i)
  /\ UNCHANGED <<resp, lcVars, alarmVars, schedVars, dailyVars, floorVars>>

\* process_pack_out_sample: the guard, the counters and _state_set
l_apply(i) ==
  /\ running = i
  /\ inflight.c[i].pc = "apply"
  /\ LET c == inflight.c[i]
         seen == IF c.view = None THEN Pop(state_inmem, ConcDevice) ELSE Put(state_inmem, ConcDevice, c.view[1])
         r == LiveAfter(inmem, seen, ConcDevice, c.r.sample.ts, c.r.sample.fl, c.r.sample.h, c.r.sample.d)
     IN  /\ lc_call' = r.call /\ UNCHANGED <<flush, pack>>
         /\ inmem' = r.inmem
         /\ state_inmem' = IF r.call.result = "accepted" THEN Put(state_inmem, ConcDevice, r.state_inmem[ConcDevice]) ELSE state_inmem
         /\ Moved(i, [c EXCEPT !.pc = "done", !.status = 200], 0)
  /\ UNCHANGED <<resp, alarmVars, schedVars, dailyVars, floorVars>>

ConcNext ==
  \E i \in Deliveries :
    \/ resume(i)
    \/ a_checks(i)
    \/ a_remove(i)
    \/ a_door(i)
    \/ a_reset(i)
    \/ l_get(i)
    \/ l_apply(i)

-----------------------------------------------------------------------------
(***************************************************************************)
(* The two endpoints with the requests they reject                         *)
(*                                                                         *)
(* check_alarm refuses an account that is not configured before anything   *)
(* else.  calculated_telemetry reads the body, gets the admin token,       *)
(* resolves the device (a deviceId of ten characters or more is taken as   *)
(* given, otherwise the name is looked up on the platform) and only then   *)
(* feeds the sample to process_pack_out_sample.                            *)
(***************************************************************************)

ACCOUNTS == {"account1"}
AccountInputs == {"account1", "nobody"}

\* deviceId of the body: absent, shorter than ten characters, or usable
RawIds == {"None", "short", "long"}
\* what the platform answers to the lookup by name
Lookups == {"found", "missing", "raised"}

\* bodies: json is whether the body parses, sample the pack_out with its ts
Bodies == {[json |-> j, raw_id |-> i, device_name |-> n, sample |-> s] : j \in BOOLEAN, i \in RawIds, n \in {None, Some("d1")}, s \in {None} \cup {Some([ts |-> t, fl |-> Some("G"), h |-> NaN, d |-> Some(d)]) : t \in {1, MaxTs}, d \in BOOLEAN}}

\* the status calculated_telemetry answers with
TelemetryStatus(body, jwt_ok, lookup) ==
  IF ~body.json THEN 400
  ELSE IF ~jwt_ok THEN 500
  ELSE IF body.raw_id = "long" THEN 200
  ELSE IF body.device_name = None THEN 400
  ELSE IF lookup = "raised" THEN 500
  ELSE IF lookup = "missing" THEN 404
  ELSE 200

\* the sample is fed whatever the answer is
ReachesFeedAlways(status) == TRUE

\* the feed comes after every raise of the handler
ReachesFeed(status) == status = 200

calculated_telemetry(body, jwt_ok, lookup) ==
  \E status \in {TelemetryStatus(body, jwt_ok, lookup)} :
    \E fed \in {ReachesFeed(status) /\ body.sample # None} :
      /\ resp' = [seq |-> 1 - resp.seq, status |-> status, fed |-> fed]
      /\ IF fed
         THEN \E r \in {LiveAfter(inmem, state_inmem, "d1", body.sample[1].ts, body.sample[1].fl, body.sample[1].h, body.sample[1].d)} :
                /\ lc_call' = r.call /\ UNCHANGED <<flush, pack>>
                /\ inmem' = r.inmem
                /\ state_inmem' = r.state_inmem
         ELSE UNCHANGED lcVars
      /\ UNCHANGED <<inflight, running, alarmVars, schedVars, dailyVars, floorVars>>

\* check_alarm with its account header
post_check_alarm(x_account_id, deviceName, payload, outcome) ==
  IF x_account_id \notin ACCOUNTS
  THEN /\ req' = [seq |-> 1 - req.seq, dev |-> deviceName, door_in |-> None, door |-> None, alarms |-> <<>>, scalars |-> {}, status |-> 400]
       /\ UNCHANGED <<bucket_counts, device_door_state, door_open_since, mono, obs_log, door_hist, lcVars, schedVars, dailyVars, webVars, floorVars>>
  ELSE check_alarm(deviceName, payload, outcome)

InputNext ==
  \/ \E body \in Bodies, jwt_ok \in BOOLEAN, lookup \in Lookups : calculated_telemetry(body, jwt_ok, lookup)
  \/ /\ TotalObs < MaxObs
     /\ \E x_account_id \in AccountInputs, deviceName \in AlarmDevices, payload \in {p \in Payloads({"x_jerk"}, {Some(0)}, {"True"}, {}) : p.vals # EmptyDict}, outcome \in CreateOutcomes : post_check_alarm(x_account_id, deviceName, payload, outcome)

-----------------------------------------------------------------------------
(***************************************************************************)
(* One series through both paths                                           *)
(*                                                                         *)
(* A pack_out value is given to process_pack_out_sample by the endpoint    *)
(* and read back from the platform by the daily job, and each path parses  *)
(* it with its own function.  The values are JSON objects with a floor     *)
(* label or none, door_open true or false, and height_mm absent, a number, *)
(* Infinity or a string that is no number.                                 *)
(***************************************************************************)

RawHeights == {"absent", "60", "120", "Infinity", "abc"}
RawFloors == {None, Some("G")}

\* float("inf"): above every height, so that it is a movement from any
\* finite height and none from itself or from nan
Infinite == 1000000

\* float(h) of a height that is a number
FloatOf(tok) == IF tok = "60" THEN Some(60) ELSE IF tok = "120" THEN Some(120) ELSE Some(Infinite)

\* live_counters._parse_pack_out: float(h) of a string that is no number
\* raises inside the JSON branch, and the k=v branch finds no field in the
\* JSON text
parse_pack_out(raw) ==
  IF raw.h = "abc" THEN [fl |-> None, h |-> NaN, d |-> None]
  ELSE [fl |-> raw.fl, h |-> IF raw.h = "absent" THEN NaN ELSE FloatOf(raw.h), d |-> Some(raw.d)]

\* daily_counters._safe_float: nan unless the value is a finite number
safe_float(tok) == IF tok \in {"60", "120"} THEN FloatOf(tok) ELSE NaN

\* daily_counters._extract_from_pack_out
extract_from_pack_out(raw) == [fl |-> raw.fl, h |-> IF raw.h = "absent" THEN NaN ELSE safe_float(raw.h), d |-> Some(raw.d)]

\* the samples of compute_window_stats_for_device for the raw series
ExtractedSeries(raws) == [i \in 1..Len(raws) |-> [ts |-> raws[i].ts] @@ extract_from_pack_out(raws[i])]

\* idle_ms of compute_window_stats_for_device before it is rounded to seconds
window_idle_ms(series) ==
  IF TooFewSamples(series) THEN EmptyDict
  ELSE LET samples == SortByTs(series)
       IN  WalkSamples(samples, 2, [prev_ts |-> samples[1].ts, prev_floor |-> samples[1].fl, prev_h |-> samples[1].h, prev_door_open |-> samples[1].d, door_opens |-> EmptyDict, idle_ms |-> EmptyDict]).idle_ms

\* strictly increasing positive timestamps
IncreasingTs(n) == {t \in [1..n -> 1..MaxTs] : \A i \in 1..n, j \in 1..n : i < j => t[i] < t[j]}

\* the endpoint feeds the next sample of the series to the live counters
feed_sample ==
  /\ win.fed < Len(win.series)
  /\ \E raw \in {win.series[win.fed + 1]} :
       \E p \in {parse_pack_out(raw)} :
         \E r \in {LiveAfter(inmem, state_inmem, "d1", raw.ts, p.fl, p.h, p.d)} :
           /\ lc_call' = r.call /\ UNCHANGED <<flush, pack>>
           /\ inmem' = r.inmem
           /\ state_inmem' = r.state_inmem
  /\ win' = [win EXCEPT !.fed = win.fed + 1]
  /\ UNCHANGED <<daily, alarmVars, schedVars, webVars, floorVars>>

\* the daily job computes the statistics of the same series
window_stats ==
  /\ win.fed = Len(win.series)
  /\ ~win.done
  /\ \E series \in {ExtractedSeries(win.series)} :
       win' = [win EXCEPT !.done = TRUE, !.stats = compute_window_stats_for_device(series), !.idle_ms = window_idle_ms(series)]
  /\ UNCHANGED <<daily, lcVars, alarmVars, schedVars, webVars, floorVars>>

EquivNext == feed_sample \/ window_stats

NoInflight == [base |-> [alarm |-> [bc |-> EmptyDict, dds |-> EmptyDict, dos |-> EmptyDict], inmem |-> EmptyDict, state_inmem |-> EmptyDict], c |-> EmptyDict]

WebInit ==
  /\ inflight = NoInflight
  /\ running = 0
  /\ resp = NoResponse

(***************************************************************************)
(* resolveFloor: the floor index of a height.  boundaries are the          *)
(* ascending floor-transition heights of a device, at least two, and       *)
(* [boundaries[i], boundaries[i+1]) is floor i, counted from 0.  rf holds  *)
(* the boundaries in use and the last two resolutions made with them.      *)
(***************************************************************************)

\* heights and boundaries are levels 0 .. MaxLevel; heights reach one beyond
MaxLevel == 4

\* b[i] in the numbering from 0
At(b, i) == b[i + 1]

\* the intervals boundaries[i] < height <= boundaries[i+1]
MatchesUpper(height, boundaries) == {i \in 0..Len(boundaries) - 2 : At(boundaries, i) < height /\ height <= At(boundaries, i + 1)}

\* the intervals boundaries[i] <= height < boundaries[i+1]
Matches(height, boundaries) == {i \in 0..Len(boundaries) - 2 : At(boundaries, i) <= height /\ height < At(boundaries, i + 1)}

Lowest(S) == CHOOSE i \in S : \A j \in S : i <= j

\* linear scan over the intervals; a height no interval holds is given the
\* nearest valid index
resolveFloor(heightMm, boundaries) ==
  IF Matches(heightMm, boundaries) # {} THEN Lowest(Matches(heightMm, boundaries))
  ELSE IF heightMm < At(boundaries, 0) THEN 0
  ELSE Len(boundaries) - 2

\* ascending lists of two or more boundaries
BoundaryLists == UNION {{b \in [1..n -> 0..MaxLevel] : \A i \in 1..n - 1 : b[i] < b[i + 1]} : n \in 2..MaxLevel + 1}

NoResolve == [b |-> <<>>, n |-> 0, h |-> 0, idx |-> 0, prev_h |-> 0, prev_idx |-> 0]

\* the floor metadata of the device is fetched
load_boundaries(b) ==
  /\ rf' = [NoResolve EXCEPT !.b = b]
  /\ UNCHANGED <<lcVars, alarmVars, schedVars, dailyVars, webVars>>

\* one call of resolveFloor with the boundaries in use
resolve(heightMm) ==
  /\ rf.b # <<>>
  /\ rf' = [rf EXCEPT !.n = IF rf.n < 2 THEN rf.n + 1 ELSE 2, !.h = heightMm, !.idx = resolveFloor(heightMm, rf.b), !.prev_h = rf.h, !.prev_idx = rf.idx]
  /\ UNCHANGED <<lcVars, alarmVars, schedVars, dailyVars, webVars>>

FloorNext ==
  \/ \E b \in BoundaryLists : load_boundaries(b)
  \/ \E heightMm \in -1..MaxLevel + 1 : resolve(heightMm)

FloorInit == rf = NoResolve

Init == LiveInit /\ AlarmInit /\ SchedInit /\ DailyInit /\ WebInit /\ FloorInit

\* two deliveries for one device are in flight
InitConc ==
  /\ SchedInit /\ DailyInit /\ FloorInit
  /\ running = 0 /\ resp = NoResponse
  /\ lc_call = [dev |-> "", ts |-> 0, result |-> "none", prev_door |-> "none", prev_floor |-> "none"]
  /\ flush = NoFlush /\ pack = NoPack
  /\ req = [seq |-> 0, dev |-> "", door_in |-> None, door |-> None, alarms |-> <<>>, scalars |-> {}, status |-> 0]
  /\ obs_log = EmptyDict /\ door_hist = EmptyDict
  /\ \E pa \in PreAlarm, pl \in PreLive, now \in {0, DOOR_OPEN_THRESHOLD_SEC}, r1 \in ConcRequests, r2 \in ConcRequests :
       /\ bucket_counts = pa.bc /\ device_door_state = pa.dds /\ door_open_since = pa.dos
       /\ mono = now
       /\ inmem = pl.inmem /\ state_inmem = pl.state_inmem
       /\ inflight = [base |-> [alarm |-> pa, inmem |-> pl.inmem, state_inmem |-> pl.state_inmem], c |-> <<Coroutine(r1), Coroutine(r2)>>]

\* counters of two devices on two dates, left by earlier samples
InitFlush ==
  /\ AlarmInit /\ SchedInit /\ DailyInit /\ WebInit /\ FloorInit
  /\ flush = NoFlush /\ pack = NoPack
  /\ lc_call = [dev |-> "", ts |-> 0, result |-> "none", prev_door |-> "none", prev_floor |-> "none"]
  /\ \E kinds \in [FlushDates \X FlushDevices -> CounterKinds] :
       /\ inmem = CountersOf(kinds)
       /\ state_inmem = [d \in {x \in FlushDevices : \E t \in FlushDates : kinds[<<t, x>>] # "none"} |-> NewState(MaxTs, Some("G"), NaN, Some(FALSE), None, None)]

InitParse ==
  /\ AlarmInit /\ SchedInit /\ DailyInit /\ WebInit /\ FloorInit
  /\ inmem = EmptyDict /\ state_inmem = EmptyDict /\ flush = NoFlush
  /\ lc_call = [dev |-> "", ts |-> 0, result |-> "none", prev_door |-> "none", prev_floor |-> "none"]
  /\ \E v \in PackValues : pack = [NoPack EXCEPT !.v = v]

\* a series of raw pack_out values, fed to neither path yet
InitEquiv ==
  /\ LiveInit /\ AlarmInit /\ SchedInit /\ WebInit /\ FloorInit
  /\ daily = NoJob
  /\ \E n \in 2..MaxSamples :
       \E t \in IncreasingTs(n), fl \in [1..n -> RawFloors], h \in [1..n -> RawHeights], d \in [1..n -> BOOLEAN] :
          win = [series |-> [i \in 1..n |-> [ts |-> t[i], fl |-> fl[i], h |-> h[i], d |-> d[i]]], done |-> FALSE, stats |-> None, fed |-> 0, idle_ms |-> EmptyDict]

\* every series a device may have in the window
InitWindow ==
  /\ LiveInit /\ AlarmInit /\ SchedInit /\ WebInit /\ FloorInit
  /\ daily = NoJob
  /\ \E n \in 0..MaxSamples :
       \E t \in DistinctTs(n), v \in [1..n -> SampleValues] :
          win = [NoWindow EXCEPT !.series = SeriesOf(t, v)]

SpecLive == Init /\ [][LiveNext]_vars
SpecFlush == InitFlush /\ [][FlushNext]_vars
SpecParse == InitParse /\ [][ParseNext]_vars
SpecBucket == Init /\ [][BucketNext]_vars
SpecDoor == Init /\ [][DoorNext]_vars
SpecScalar == Init /\ [][ScalarNext]_vars
SpecMismatch == Init /\ [][MismatchNext]_vars
SpecFirstMatch == Init /\ [][FirstMatchNext]_vars
SpecWindow == InitWindow /\ [][WindowNext]_vars
SpecDaily == Init /\ [][DailyNext]_vars
SpecConc == InitConc /\ [][ConcNext]_vars
SpecInput == Init /\ [][InputNext]_vars
SpecEquiv == InitEquiv /\ [][EquivNext]_vars
SpecFloor == Init /\ [][FloorNext]_vars
SpecSched == Init /\ [][SchedNext]_vars

\* the steps of the loop of thread t
LoopStep(t) == run_loop_init(t) \/ run_loop_check(t) \/ run_loop_due(t) \/ (\E raises \in BOOLEAN : run_loop_tick_end(t, raises)) \/ run_loop_wait(t) \/ scheduler_finally(t)

\* the scheduler with threads that keep running: a loop that can take a step
\* takes one, and the tick handler it is in returns or raises
SpecSchedLive == Init /\ [][SchedNext]_vars /\ \A t \in Threads : WF_vars(LoopStep(t))

-----------------------------------------------------------------------------
\* C1: a call of process_pack_out_sample for a device whose ts_ms is less than
\* or equal to the timestamp of the last accepted sample of that device leaves
\* every counter and the stored last-sample state of every device unchanged.
C1_ReplayIsNoOp ==
  [][ (/\ lc_call'.dev \in DOMAIN state_inmem
       /\ lc_call'.ts <= state_inmem[lc_call'.dev].ts)
      => (inmem' = inmem /\ state_inmem' = state_inmem) ]_vars

\* a replayed sample was dropped for a device that holds counters
C1_Witness ==
  /\ lc_call.result = "dup"
  /\ lc_call.dev \in DOMAIN state_inmem
  /\ lc_call.ts <= state_inmem[lc_call.dev].ts
  /\ \E k \in DOMAIN inmem : k[2] = lc_call.dev /\ k[3] = "idle_ms"
  /\ \E k \in DOMAIN inmem : k[2] = lc_call.dev /\ k[3] = "door"

\* C2: for one device and one bucketed key, three observations (calls of
\* check_bucket_and_trigger) in a row whose heights are within ZONE_MM of each
\* other, made when no stored bucket lies within ZONE_MM of any of the three
\* heights, emit exactly one alarm, at the third observation; the first and
\* the second emit none.
Near(a, b) == Abs(a - b) <= ZONE_MM

FreshTriple(L, i) ==
  /\ Near(L[i].h, L[i + 1].h)
  /\ Near(L[i].h, L[i + 2].h)
  /\ Near(L[i + 1].h, L[i + 2].h)
  /\ \A c \in L[i].pre : \A j \in i..(i + 2) : ~Near(c, L[j].h)

C2_BucketDebounce ==
  \A k \in DOMAIN obs_log :
    \A i \in 1..(Len(obs_log[k]) - 2) :
      FreshTriple(obs_log[k], i)
        => /\ ~obs_log[k][i].fired
           /\ ~obs_log[k][i + 1].fired
           /\ obs_log[k][i + 2].fired

\* three observations at two different heights of one zone fired at the third
C2_Witness ==
  \E k \in DOMAIN obs_log :
    \E i \in 1..(Len(obs_log[k]) - 2) :
      /\ FreshTriple(obs_log[k], i)
      /\ obs_log[k][i].h # obs_log[k][i + 1].h
      /\ obs_log[k][i + 2].fired
      /\ obs_log[k][i + 2].count = BUCKET_COUNT_THRESHOLD

\* C3: after an alarm was emitted for a device, key and height zone (the
\* bucket's center), the next observation counted in that zone starts a fresh
\* count of 1 and does not fire, so two consecutive alarms of one zone are at
\* least BUCKET_COUNT_THRESHOLD observations apart.
C3_ConsumedBucketRestarts ==
  \A k \in DOMAIN obs_log :
    \A i \in 1..Len(obs_log[k]) : \A j \in 1..Len(obs_log[k]) :
      (/\ i < j
       /\ obs_log[k][i].fired
       /\ obs_log[k][j].center = obs_log[k][i].center
       /\ \A m \in (i + 1)..(j - 1) :
            obs_log[k][m].center # obs_log[k][i].center)
      => (obs_log[k][j].count = 1 /\ ~obs_log[k][j].fired)

\* C4: a "Door Open Too Long" alarm is never emitted by a request whose
\* effective door state is closed, nor after a closed report and before the
\* next open report of that device.
DoorAlarmIn(alarms) ==
  \E i \in 1..Len(alarms) : alarms[i] = "Door Open Too Long"

C4_NoDoorAlarmWhileClosed ==
  DoorAlarmIn(req.alarms)
    => /\ req.door = Some(TRUE)
       /\ door_hist[req.dev].rep = "open"

\* C5: a door alarm is emitted only when the door has been open for at least
\* DOOR_OPEN_THRESHOLD_SEC since the open transition and since the previous
\* door alarm of that device.
C5_DoorAlarmOnlyAfterThreshold ==
  [][ (req'.seq # req.seq /\ DoorAlarmIn(req'.alarms))
      => LET h == Get(door_hist, req'.dev, NoDoorHist)
         IN  /\ h.sess # None
             /\ mono - h.sess[1] >= DOOR_OPEN_THRESHOLD_SEC
             /\ (h.last_fire # None
                   => mono - h.last_fire[1] >= DOOR_OPEN_THRESHOLD_SEC) ]_vars

\* C6 as stated: a door open continuously for at least the threshold fires
\* exactly one alarm: never more than one while it stays open, and one by the
\* time it is closed.
C6_ExactlyOneAlarm ==
  \A d \in DOMAIN door_hist :
    /\ door_hist[d].nfire <= 1
    /\ (door_hist[d].ended # None /\ door_hist[d].ended[1].long)
         => door_hist[d].ended[1].nfire = 1

\* C6 amended: counting from the first call of process_door_alarm that saw
\* the door open, no alarm fires before the threshold crossing, and the first
\* call at or after the crossing that still sees the door open fires one.
C6_FirstCallAfterThresholdFires ==
  [][ (req'.seq # req.seq /\ req'.door = Some(TRUE))
      => LET h == Get(door_hist, req'.dev, NoDoorHist)
         IN  h.sess # None
               => /\ mono - h.sess[1] < DOOR_OPEN_THRESHOLD_SEC
                       => ~DoorAlarmIn(req'.alarms)
                  /\ (mono - h.sess[1] >= DOOR_OPEN_THRESHOLD_SEC
                        /\ h.nfire = 0)
                       => /\ DoorAlarmIn(req'.alarms)
                          /\ door_hist'[req'.dev].nfire = 1 ]_vars

\* the first alarm of an open session fired, at the threshold crossing
C6_Witness ==
  /\ DoorAlarmIn(req.alarms)
  /\ door_hist[req.dev].nfire = 1
  /\ door_hist[req.dev].sess # None
  /\ mono - door_hist[req.dev].sess[1] = DOOR_OPEN_THRESHOLD_SEC

\* C7: a closed report removes the open-since marker of the device, and an
\* alarm is emitted only when the open reports since the last closed report
\* span at least the threshold (the time of an earlier session is not carried
\* over).
C7_CloseCancelsPendingFire ==
  [][ req'.seq # req.seq
      => /\ req'.door_in = Some(FALSE)
              => req'.dev \notin DOMAIN door_open_since'
         /\ DoorAlarmIn(req'.alarms)
              => /\ door_hist'[req'.dev].rep_at # None
                 /\ mono - door_hist'[req'.dev].rep_at[1]
                      >= DOOR_OPEN_THRESHOLD_SEC ]_vars


\* C8: at most one execution of _run_loop is active at any moment.
C8_OneLoopAtATime ==
  Cardinality({t \in Threads : pc[t] \in InLoop}) <= 1

\* C9: after stop_scheduler() has returned, no tick handler invocation begins
\* until the scheduler is started again.
C9_NoTickAfterStop ==
  [][ (\E t \in Threads : pc'[t] \in InTick /\ pc[t] \notin InTick)
      => ~sched_hist.quiet ]_vars

\* C10: an exception raised by a tick handler does not end the loop; the due
\* time of the handler that raised becomes now + its interval, the due time of
\* the other handler is unchanged, and a handler is invoked only when its due
\* time has come.
C10_TickExceptionIsContained ==
  [][ \A t \in Threads :
        /\ (pc[t] = "in_alarm" /\ pc'[t] # "in_alarm"
              /\ sched_hist'.ev = "tick_raised")
             => /\ pc'[t] = "daily?"
                /\ loc'[t].next_alarm = loc[t].now + ALARM_INTERVAL_SEC
                /\ loc'[t].next_daily = loc[t].next_daily
        /\ (pc[t] = "in_daily" /\ pc'[t] # "in_daily"
              /\ sched_hist'.ev = "tick_raised")
             => /\ pc'[t] = "wait"
                /\ loc'[t].next_daily = loc[t].now + DAILY_INTERVAL_SEC
                /\ loc'[t].next_alarm = loc[t].next_alarm
        /\ (pc'[t] = "in_alarm" /\ pc[t] # "in_alarm")
             => loc[t].now >= loc[t].next_alarm
        /\ (pc'[t] = "in_daily" /\ pc[t] # "in_daily")
             => loc[t].now >= loc[t].next_daily ]_vars

\* the daily handler has just raised in an iteration that ran both handlers,
\* and the loop is at its wait with both due times advanced
C10_Witness ==
  /\ sched_hist.ev = "tick_raised"
  /\ \E t \in Threads :
       /\ pc[t] = "wait"
       /\ loc[t].now >= DAILY_INTERVAL_SEC
       /\ loc[t].next_alarm = loc[t].now + ALARM_INTERVAL_SEC
       /\ loc[t].next_daily = loc[t].now + DAILY_INTERVAL_SEC

\* ---- live counters: what a call added -------------------------------------

LiveFields == FloorLabels \cup {"UNKNOWN"}
LiveDates == 0..(MaxTs \div DayMs)

RECURSIVE SumDates(_, _, _, _, _)
SumDates(s, dev, kind, f, d) ==
  IF d < 0 THEN 0
  ELSE Get(Get(s, <<d, dev, kind>>, EmptyDict), f, 0)
         + SumDates(s, dev, kind, f, d - 1)

\* the door-open count and the idle milliseconds of a floor, over all days
DoorCount(s, dev, f) == SumDates(s, dev, "door", f, MaxTs \div DayMs)
IdleMs(s, dev, f) == SumDates(s, dev, "idle_ms", f, MaxTs \div DayMs)
TotalIdleMs(s, dev) ==
  IdleMs(s, dev, "G") + IdleMs(s, dev, "1") + IdleMs(s, dev, "UNKNOWN")

\* C13: the door-open count of a floor changes only by an accepted sample that
\* reports the door open while the recorded door state is closed (not unknown,
\* not missing), it then grows by exactly one, and such a sample always counts.
C13_DoorCountOnlyOnClosedToOpen ==
  [][ \A f \in LiveFields :
        LET d      == lc_call'.dev
            before == DoorCount(inmem, d, f)
            after  == DoorCount(inmem', d, f)
        IN  /\ after # before
                 => /\ after = before + 1
                    /\ lc_call'.result = "accepted"
                    /\ state_inmem'[d].door = "1"
                    /\ lc_call'.prev_door = "0"
            /\ (/\ lc_call'.result = "accepted"
                /\ lc_call'.prev_door = "0"
                /\ state_inmem'[d].door = "1"
                /\ state_inmem'[d].floor = f)
                 => after = before + 1 ]_vars

C19_EveryScalarBreachAlarms ==
  \A k \in req.scalars :
    Cardinality({i \in 1..Len(req.alarms) : req.alarms[i] = k}) = 1

\* C20 as stated: for every device, key and height at most one stored bucket
\* matches the height.
C20_AtMostOneBucketMatches ==
  \A d \in DOMAIN bucket_counts : \A k \in DOMAIN bucket_counts[d] :
    \A h \in BucketHeights \ {None} :
      Cardinality({i \in 1..Len(bucket_counts[d][k]) :
                     Near(bucket_counts[d][k][i].center, h[1])}) <= 1

\* C20 amended: the centers of two stored buckets of a device and key are
\* more than ZONE_MM apart, so no bucket matches the center of another; a
\* height between two centers can match both, and an observation is counted
\* on the first bucket of the list that matches, or opens a bucket when none
\* does.
C20_FirstMatchingBucketCounts ==
  /\ \A d \in DOMAIN bucket_counts : \A k \in DOMAIN bucket_counts[d] :
       \A i, j \in 1..Len(bucket_counts[d][k]) :
         i # j => ~Near(bucket_counts[d][k][i].center,
                        bucket_counts[d][k][j].center)
  /\ \A k \in DOMAIN obs_log : \A n \in 1..Len(obs_log[k]) :
       LET e    == obs_log[k][n]
           hits == {j \in 1..Len(e.list) : Near(e.list[j], e.h)}
       IN  IF hits = {}
           THEN e.center = e.h /\ e.count = 1
           ELSE \E j \in hits : /\ \A m \in hits : j <= m
                                /\ e.center = e.list[j]

\* an observation matched two stored buckets and was counted on the first
C20_Witness ==
  \E k \in DOMAIN obs_log : \E n \in 1..Len(obs_log[k]) :
    LET e    == obs_log[k][n]
        hits == {j \in 1..Len(e.list) : Near(e.list[j], e.h)}
    IN  /\ Cardinality(hits) = 2
        /\ e.center = e.list[1]
        /\ e.count = 2



-----------------------------------------------------------------------------
(***************************************************************************)
(* The window statistics, stated on the series itself: the samples in      *)
(* ascending timestamp order (equal timestamps in the order received), the *)
(* floor of a sample, and the pairs of consecutive samples.                *)
(***************************************************************************)

WinFloors == FloorLabels \cup {"UNKNOWN"}

\* the position of sample i of the series s in ascending timestamp order
RankOf(s, i) == Cardinality({j \in 1..Len(s) : s[j].ts < s[i].ts \/ (s[j].ts = s[i].ts /\ j <= i)})

\* the k-th sample of s in ascending timestamp order
Nth(s, k) == s[CHOOSE i \in 1..Len(s) : RankOf(s, i) = k]

\* the floor of the k-th sample: its own label, else the last label known
\* before it, else UNKNOWN
LabelAt(s, k) ==
  LET labelled == {j \in 1..k : Truthy(Nth(s, j).fl)}
  IN  IF labelled = {} THEN "UNKNOWN"
      ELSE Nth(s, CHOOSE j \in labelled : \A x \in labelled : x <= j).fl[1]

\* the pairs (k-1, k) of consecutive samples, closed then open, on floor f
ClosedToOpen(s, f) == {k \in 2..Len(s) : Nth(s, k - 1).d = Some(FALSE) /\ Nth(s, k).d = Some(TRUE) /\ LabelAt(s, k) = f}

\* the height change over the pair (k-1, k) is not known to exceed the
\* threshold: a sample without a height shows no movement
Still(s, k) ==
  \/ Nth(s, k - 1).h = NaN
  \/ Nth(s, k).h = NaN
  \/ Abs(Nth(s, k).h[1] - Nth(s, k - 1).h[1]) <= 50

\* the pair (k-1, k) is an idle gap of floor f
IdleGap(s, k, f) == Nth(s, k - 1).d = Some(FALSE) /\ Nth(s, k).d = Some(FALSE) /\ Still(s, k) /\ LabelAt(s, k) = f

\* the sum (ms) of the idle gaps of floor f among the first k samples
RECURSIVE IdleGapSum(_, _, _)
IdleGapSum(s, k, f) ==
  IF k < 2 THEN 0
  ELSE IdleGapSum(s, k - 1, f)
       + (IF IdleGap(s, k, f) THEN Nth(s, k).ts - Nth(s, k - 1).ts ELSE 0)

\* C16: door_opens[floor] is the number of pairs of consecutive samples, in
\* ascending timestamp order, whose earlier sample reports the door closed and
\* whose later sample reports it open, each counted on the floor of the later
\* sample (its own label, else the last known label, else UNKNOWN); floors
\* without such a pair have no entry.
C16_DoorOpensCountsClosedToOpenPairs ==
  (win.done /\ win.stats # None) =>
    /\ DOMAIN win.stats[1].door_opens \subseteq WinFloors
    /\ \A f \in WinFloors :
         /\ Get(win.stats[1].door_opens, f, 0) = Cardinality(ClosedToOpen(win.series, f))
         /\ f \in DOMAIN win.stats[1].door_opens <=> ClosedToOpen(win.series, f) # {}

\* a series closed, open, closed with the open sample labelled on floor 1 after
\* a sample on floor G: one door opening, counted on floor 1
C16_Witness ==
  /\ win.done /\ win.stats # None /\ Len(win.series) = 3
  /\ Nth(win.series, 1).d = Some(FALSE) /\ Nth(win.series, 1).fl = Some("G")
  /\ Nth(win.series, 2).d = Some(TRUE) /\ Nth(win.series, 2).fl = Some("1")
  /\ Nth(win.series, 3).d = Some(FALSE)
  /\ win.series[1].ts > win.series[2].ts
  /\ win.stats[1].door_opens = [f \in {"1"} |-> 1]

\* C17: idle_sec[floor] is the sum, rounded to seconds, of the timestamp gaps
\* between consecutive samples that both report the door closed and whose
\* height change is at most 50 mm (a sample without a height shows no
\* movement), counted on the floor of the later sample; every other gap adds
\* nothing.
C17_IdleSecSumsClosedStillGaps ==
  (win.done /\ win.stats # None) =>
    /\ DOMAIN win.stats[1].idle_sec \subseteq WinFloors
    /\ \A f \in WinFloors :
         Get(win.stats[1].idle_sec, f, 0) = RoundSeconds(IdleGapSum(win.series, Len(win.series), f))

\* 120 s with the door closed and a height change of exactly 50 mm: 120 idle
\* seconds on floor G
C17_Witness ==
  /\ win.done /\ win.stats # None /\ Len(win.series) = 2
  /\ Nth(win.series, 1) = [ts |-> 0, fl |-> Some("G"), h |-> Some(0), d |-> Some(FALSE)]
  /\ Nth(win.series, 2) = [ts |-> 120000, fl |-> Some("G"), h |-> Some(50), d |-> Some(FALSE)]
  /\ win.stats[1].idle_sec = [f \in {"G"} |-> 120]

-----------------------------------------------------------------------------
(***************************************************************************)
(* The daily job                                                           *)
(***************************************************************************)

\* C11: a device whose fetch or write raises does not end the job: the job
\* ends early only when the login or the listing of a page raises, and when it
\* returns its summary every device of every page listed has been visited and
\* counted.
C11_DeviceFailureDoesNotAbort ==
  /\ daily.pc = "aborted" => daily.cause \in {"jwt", "list"}
  /\ daily.pc = "done" =>
       /\ daily.summary # None
       /\ daily.visited = DevicesOf(daily.listing)
       /\ daily.summary[1].total_devices = Cardinality(DevicesOf(daily.listing))

\* two pages of two devices: the first device of the first page failed, the
\* other three were written, the last one on the second page, and the job
\* returned its summary
C11_Witness ==
  /\ daily.pc = "done" /\ daily.listing = <<2, 2>>
  /\ daily.failed = 1 /\ <<0, 1>> \notin daily.written
  /\ daily.written = {<<0, 2>>, <<1, 1>>, <<1, 2>>}
  /\ daily.summary[1].processed = 3

\* the failure count of a summary; a summary without one counts no failure
SummaryFailed(s) == IF "failed" \in DOMAIN s THEN s.failed ELSE 0

ShortVisit == daily'.total_devices = daily.total_devices + 1 /\ daily'.last.fetched # None /\ Len(daily'.last.fetched[1]) < 2

\* C18: a device with 0 or 1 samples in the window gives no result: nothing is
\* written for it, no result is appended, it is counted in skipped_no_data and
\* not as processed or failed, and the job stays in the device loop.
C18_FewerThanTwoSamplesIsSkipped ==
  [][ShortVisit =>
       /\ daily'.last.outcome = "no_data"
       /\ daily'.written = daily.written
       /\ daily'.results = daily.results
       /\ daily'.skipped_no_data = daily.skipped_no_data + 1
       /\ daily'.processed = daily.processed
       /\ daily'.failed = daily.failed
       /\ daily'.pc = "devices"]_vars

\* the first device of a page had one sample and was skipped; the second one is
\* next
C18_Witness ==
  /\ daily.pc = "devices" /\ daily.idx = 2 /\ daily.listing[daily.page + 1] = 2
  /\ daily.last.fetched # None /\ Len(daily.last.fetched[1]) = 1
  /\ daily.last.outcome = "no_data"
  /\ daily.skipped_no_data = 1 /\ daily.written = {} /\ daily.failed = 0

-----------------------------------------------------------------------------
(***************************************************************************)
(* The door timer and the requests that do not report the door             *)
(***************************************************************************)

\* a request without a usable door_open is handled while the last known door
\* state of its device is open
AbsentWhileOpen == req'.seq # req.seq /\ req'.door_in = None /\ Get(device_door_state, req'.dev, FALSE)

\* C21: a request without door_open, received while the last known door state
\* of the device is open, never clears the open-since marker and leaves the
\* last known state open: the marker keeps its time, or is set to the time of
\* the request when the request emitted the door alarm.
C21_AbsentDoorKeepsOpenState ==
  [][ AbsentWhileOpen
      => /\ req'.dev \in DOMAIN door_open_since
         /\ req'.dev \in DOMAIN door_open_since'
         /\ Get(device_door_state', req'.dev, FALSE)
         /\ \/ door_open_since'[req'.dev] = door_open_since[req'.dev]
            \/ DoorAlarmIn(req'.alarms) /\ door_open_since'[req'.dev] = mono
         /\ (req'.status = 200 /\ mono - door_open_since[req'.dev] >= DOOR_OPEN_THRESHOLD_SEC)
              => DoorAlarmIn(req'.alarms) ]_vars

\* a request without door_open, handled as open, emitted the door alarm at
\* the threshold
C21_Witness ==
  /\ req.door_in = None /\ req.door = Some(TRUE) /\ req.status = 200
  /\ DoorAlarmIn(req.alarms)
  /\ door_hist[req.dev].rep = "open"
  /\ req.dev \in DOMAIN door_open_since /\ door_open_since[req.dev] = mono

\* C22: an open report for a device whose last report was already open finds
\* the one open-since marker of the device and does not move it, unless the
\* request emits the door alarm; the marker it finds is the time of the first
\* open report since the last closed report, or the time of the door alarm
\* emitted since.
C22_ReopenKeepsFirstOpenTime ==
  [][ (req'.seq # req.seq /\ req'.door_in = Some(TRUE) /\ Get(door_hist, req'.dev, NoDoorHist).rep = "open")
      => LET h == door_hist[req'.dev]
         IN  /\ req'.dev \in DOMAIN door_open_since
             /\ req'.dev \in DOMAIN door_open_since'
             /\ \/ door_open_since[req'.dev] = h.rep_at[1]
                \/ h.last_fire # None /\ door_open_since[req'.dev] = h.last_fire[1]
             /\ \/ door_open_since'[req'.dev] = door_open_since[req'.dev]
                \/ DoorAlarmIn(req'.alarms) /\ door_open_since'[req'.dev] = mono ]_vars

-----------------------------------------------------------------------------
(***************************************************************************)
(* Concurrent deliveries for one device                                    *)
(***************************************************************************)

\* the per-device state: buckets, door state and marker, live counters and
\* last-sample state
Shared == [alarm |-> AlarmState, inmem |-> inmem, state_inmem |-> state_inmem]

\* the state sh after the request r was handled alone
HandledAlone(sh, r) ==
  IF r.kind = "alarm"
  THEN LET c == RunCheckAlarmOn(sh.alarm, mono, ConcDevice, r.payload, r.outcome)
       IN  [sh EXCEPT !.alarm = [bc |-> c.bc, dds |-> c.dds, dos |-> c.dos]]
  ELSE LET l == LiveAfter(sh.inmem, sh.state_inmem, ConcDevice, r.sample.ts, r.sample.fl, r.sample.h, r.sample.d)
       IN  [sh EXCEPT !.inmem = l.inmem, !.state_inmem = l.state_inmem]

BothAnswered == \A i \in Deliveries : inflight.c[i].pc \in {"done", "failed"}

\* C23: when both deliveries for the device have been answered, the buckets,
\* the door state and marker, and the live counters and last-sample state are
\* those that handling the two requests one after the other, in one of the two
\* orders, leaves.
C23_ConcurrentDeliveriesAreSerial ==
  BothAnswered =>
    \/ Shared = HandledAlone(HandledAlone(inflight.base, inflight.c[1].r), inflight.c[2].r)
    \/ Shared = HandledAlone(HandledAlone(inflight.base, inflight.c[2].r), inflight.c[1].r)

\* two breaches at the height of a bucket that held two: the first one emitted
\* the alarm and consumed the bucket, the second one opened a new bucket
C23_Witness ==
  /\ BothAnswered
  /\ inflight.base.alarm.bc # EmptyDict
  /\ \A i \in Deliveries : inflight.c[i].r.kind = "alarm" /\ inflight.c[i].status = 200 /\ inflight.c[i].r.payload.height = Some(0) /\ ConcKey \in DOMAIN inflight.c[i].r.payload.vals
  /\ bucket_counts[ConcDevice][ConcKey] = <<[center |-> 0, count |-> 1]>>

-----------------------------------------------------------------------------
(***************************************************************************)
(* Errors of the platform calls, and requests that are rejected            *)
(***************************************************************************)

\* C24: a check_alarm request during which a platform call fails is answered
\* as a handled request, not as a failed one, and its remaining checks are
\* carried out: the door timer has been updated with the door state of the
\* request.
C24_UpstreamErrorsDegrade ==
  req.status # 0 => req.status = 200 /\ req.door # None

\* the state kept per device: buckets, door state, open-since markers, live
\* counters and last-sample state
perDevice == <<bucket_counts, device_door_state, door_open_since, inmem, state_inmem>>

Rejected ==
  \/ resp'.seq # resp.seq /\ resp'.status \in {400, 404}
  \/ req'.seq # req.seq /\ req'.status = 400

\* C25: a request that is rejected (check_alarm for an unknown account, 400;
\* calculated-telemetry with a body that is not JSON or names no device, 400,
\* or names a device the platform does not know, 404) leaves the buckets,
\* the door state, the open-since markers and the live counters and
\* last-sample state as they were.
C25_RejectedRequestChangesNothing == [][Rejected => UNCHANGED perDevice]_vars

\* a device with buckets, a door marker and live state, and a request with a
\* sample for it answered 404 or 400
C25_Witness ==
  /\ resp.status \in {400, 404} /\ req.status = 400
  /\ bucket_counts # EmptyDict /\ door_open_since # EmptyDict /\ state_inmem # EmptyDict /\ inmem # EmptyDict

-----------------------------------------------------------------------------
(***************************************************************************)
(* The live path and the batch path on the same series                     *)
(***************************************************************************)

OneDate(series) == \A i \in 1..Len(series) : local_date_str(series[i].ts) = local_date_str(series[1].ts)

\* C26: for a series of two or more samples with strictly increasing
\* positive timestamps on one date, each with an explicit door state, fed in
\* order to process_pack_out_sample from an empty state, the per-floor door
\* counts and idle milliseconds of that date are those
\* compute_window_stats_for_device computes over the same samples.
C26_BatchAgreesWithLive ==
  (win.done /\ Len(win.series) >= 2 /\ OneDate(win.series)) =>
     /\ Get(inmem, door_key(local_date_str(win.series[1].ts), "d1"), EmptyDict) = win.stats[1].door_opens
     /\ Get(inmem, idle_key(local_date_str(win.series[1].ts), "d1"), EmptyDict) = win.idle_ms

-----------------------------------------------------------------------------
(***************************************************************************)
(* The floor of a height                                                   *)
(***************************************************************************)

\* C27: with ascending boundaries b, resolveFloor does not decrease when the
\* height grows, the floor of the boundary b[i] is i for every floor index i
\* (0 .. len(b)-2), a height below the first boundary is given floor 0 and a
\* height at or above the last boundary floor len(b)-2.
C27_FloorMappingMonotone ==
  /\ (rf.n = 2 /\ rf.prev_h <= rf.h) => rf.prev_idx <= rf.idx
  /\ rf.n >= 1 =>
       /\ \A i \in 0..Len(rf.b) - 2 : rf.h = At(rf.b, i) => rf.idx = i
       /\ rf.h < At(rf.b, 0) => rf.idx = 0
       /\ rf.h >= At(rf.b, Len(rf.b) - 1) => rf.idx = Len(rf.b) - 2

\* three floors; the height of the second boundary after a height below the
\* first one
C27_Witness ==
  /\ rf.n = 2 /\ Len(rf.b) = 4
  /\ rf.prev_h < At(rf.b, 0) /\ rf.prev_idx = 0
  /\ rf.h = At(rf.b, 1) /\ rf.idx = 1

-----------------------------------------------------------------------------
(***************************************************************************)
(* Stopping the scheduler, and the tick handlers of several loops          *)
(***************************************************************************)

\* the 5 s of the join ran out on the thread stop_scheduler waits for
JoinTimedOut ==
  /\ thread # None
  /\ pc[thread[1]] \in InLoop
  /\ (pc[thread[1]] \in InTick \/ ~stop_event)

\* C28: stop_scheduler() returns and marks the scheduler as stopped only
\* when no loop is running any more, whether the loop was started with
\* start_scheduler() or run through scheduler(), or when its join timed out.
C28_StopWaitsForLoopExit ==
  [][ (stoppers = "join" /\ stoppers' = "none")
      => \/ \A t \in Threads : pc[t] \notin InLoop
         \/ JoinTimedOut ]_vars

\* C29: at most one invocation of _alarm_tick or _daily_stats_tick is in
\* progress at any time.
C29_TickHandlersNeverOverlap ==
  Cardinality({t \in Threads : pc[t] \in InTick}) <= 1

-----------------------------------------------------------------------------
(***************************************************************************)
(* The bucket an observation is counted on                                 *)
(***************************************************************************)

BucketsOf(bc, d, k) == Get(Get(bc, d, EmptyDict), k, <<>>)

WithoutAt(seq, i) == [j \in 1..(Len(seq) - 1) |-> IF j < i THEN seq[j] ELSE seq[j + 1]]

\* C30: an observation of a device and key changes at most one bucket of
\* their list: the first bucket in creation order whose center is within
\* ZONE_MM of the height is incremented (or consumed when the alarm is
\* emitted), also when a later bucket is closer, and every other bucket is
\* left as it was; a bucket is opened only when no stored bucket matches.
C30_FirstMatchNotClosest ==
  [][ \A k \in DOMAIN obs_log' :
        Len(obs_log'[k]) > Len(Get(obs_log, k, <<>>)) =>
          LET e    == obs_log'[k][Len(obs_log'[k])]
              old  == BucketsOf(bucket_counts, k[1], k[2])
              new  == BucketsOf(bucket_counts', k[1], k[2])
              hits == {i \in 1..Len(old) : Abs(old[i].center - e.h) <= ZONE_MM}
          IN  IF hits = {}
              THEN new = Append(old, [center |-> e.h, count |-> 1])
              ELSE \E i \in hits :
                     /\ \A j \in hits : i <= j
                     /\ \/ new = [old EXCEPT ![i].count = @ + 1]
                        \/ new = WithoutAt(old, i) ]_vars

\* the last observation lay within the zone of two stored buckets, nearer to
\* the second, and was counted on the first
C30_Witness ==
  \E k \in DOMAIN obs_log :
    LET e == obs_log[k][Len(obs_log[k])]
    IN  /\ Len(e.list) = 2
        /\ Abs(e.list[1] - e.h) <= ZONE_MM
        /\ Abs(e.list[2] - e.h) < Abs(e.list[1] - e.h)
        /\ e.center = e.list[1] /\ e.count = 2
        /\ BucketsOf(bucket_counts, k[1], k[2]) = <<[center |-> e.list[1], count |-> 2], [center |-> e.list[2], count |-> 1]>>

-----------------------------------------------------------------------------
(***************************************************************************)
(* The pages of the daily job                                              *)
(***************************************************************************)

\* the devices of the pages before page p
DevicesBefore(listing, p) == {d \in DevicesOf(listing) : d[1] < p}

\* the pages of the listing all report hasNext, but for the last one when no
\* empty page trails it
StopsAt(listing, trailing) == IF listing = <<>> \/ trailing THEN Len(listing) ELSE Len(listing) - 1

\* C31: the job asks for the pages 0, 1, 2, ... in order, visits every device
\* of every page it fetched exactly once, goes on to the next page as long as
\* the page reports hasNext, and returns its summary at the first page that
\* is empty or does not report hasNext.
C31_PagesInOrderEveryDeviceOnce ==
  /\ daily.total_devices = Cardinality(daily.visited)
  /\ daily.pc \in {"list", "devices"} =>
       /\ daily.page <= StopsAt(daily.listing, daily.trailing)
       /\ DevicesBefore(daily.listing, daily.page) \subseteq daily.visited
       /\ daily.visited \subseteq DevicesBefore(daily.listing, daily.page + 1)
  /\ daily.pc = "done" =>
       /\ daily.page = StopsAt(daily.listing, daily.trailing)
       /\ daily.visited = DevicesOf(daily.listing)
       /\ daily.summary # None
       /\ daily.summary[1].total_devices = Cardinality(DevicesOf(daily.listing))

\* two pages that report hasNext and an empty third page: the job returned
\* after it asked for page 2
C31_Witness ==
  /\ daily.pc = "done"
  /\ Len(daily.listing) = 2 /\ daily.trailing /\ daily.page = 2
  /\ Cardinality(daily.visited) = 4

-----------------------------------------------------------------------------
(***************************************************************************)
(* The order in which the store returns a series                           *)
(***************************************************************************)

Perms(n) == {p \in [1..n -> 1..n] : \A i, j \in 1..n : i # j => p[i] # p[j]}

Permuted(series, p) == [i \in 1..Len(series) |-> series[p[i]]]

\* C32: for a series with pairwise distinct timestamps the statistics of
\* compute_window_stats_for_device are the same for every order in which the
\* samples are fetched, and no floor is credited a negative idle time.
C32_StatsIndependentOfFetchOrder ==
  win.done =>
    /\ \A p \in Perms(Len(win.series)) :
         /\ compute_window_stats_for_device(Permuted(win.series, p)) = win.stats
         /\ window_idle_ms(Permuted(win.series, p)) = window_idle_ms(win.series)
    /\ \A f \in DOMAIN window_idle_ms(win.series) : window_idle_ms(win.series)[f] >= 0

\* three samples fetched latest first, with a door opening and an idle gap
C32_Witness ==
  /\ win.done /\ Len(win.series) = 3
  /\ win.series[1].ts > win.series[2].ts /\ win.series[2].ts > win.series[3].ts
  /\ win.stats # None
  /\ win.stats[1].door_opens # EmptyDict
  /\ window_idle_ms(win.series) # EmptyDict

-----------------------------------------------------------------------------
(***************************************************************************)
(* Flushing the counters of a date                                         *)
(***************************************************************************)

\* the counters of the date and device in the store s
CountersAt(s, date_str, device_id) == [k \in {x \in DOMAIN s : x[1] = date_str /\ x[2] = device_id} |-> s[k]]

\* one pass of the loop of flush_day_to_tb has been made
Attempt == flush.pc = "loop" /\ flush'.attempted # flush.attempted

\* C33: a device whose write is answered with a status of 400 or more (or
\* whose write raises) keeps its door and idle counters of the date and is
\* not counted as flushed; a device whose write succeeded is counted and
\* loses the counters of that date only; the counters of other devices and
\* of other dates are never touched.
C33_CountersClearedOnlyAfterWrite ==
  [][ Attempt =>
        LET d == flush'.last.dev
        IN  /\ flush'.last.write # "ok" => (inmem' = inmem /\ flush'.flushed = flush.flushed)
            /\ flush'.last.write = "ok" =>
                 /\ flush'.flushed = flush.flushed + 1
                 /\ CountersAt(inmem', flush.date, d) = EmptyDict
            /\ \A k \in DOMAIN inmem : (k[1] # flush.date \/ k[2] # d) => (k \in DOMAIN inmem' /\ inmem'[k] = inmem[k]) ]_vars

\* a flush of date 0 has ended: the write of one device was refused and its
\* counters are still there, the other device was flushed, and both devices
\* still have their counters of date 1
C33_Witness ==
  /\ flush.pc = "done" /\ flush.date = 0
  /\ flush.candidates = FlushDevices /\ flush.flushed = 1 /\ Cardinality(flush.failed) = 1
  /\ \A d \in flush.failed : CountersAt(inmem, 0, d) # EmptyDict
  /\ \A d \in FlushDevices : CountersAt(inmem, 1, d) # EmptyDict

\* C34: when the write of a device failed during a flush, by an error
\* status, a timeout or an exception of the call, every other candidate
\* device of the date has still been attempted when the flush ends.
C34_FailedWriteDoesNotStopFlush ==
  (flush.pc \in {"done", "raised"} /\ flush.failed # {}) => flush.attempted = flush.candidates

-----------------------------------------------------------------------------
(***************************************************************************)
(* The floor-mismatch alarm                                                *)
(***************************************************************************)

FloorAlarmIn(alarms) == \E i \in 1..Len(alarms) : alarms[i] = "Floor Mismatch Alarm"

\* the request gives no ground for a mismatch: a value is missing, the index
\* is outside the boundaries, or there are no boundaries
NoGround(r) ==
  \/ r.height = None \/ r.fl.cfi = None
  \/ r.fl.attr \in {"absent", "malformed"}
  \/ r.fl.cfi[1] < 0 \/ r.fl.cfi[1] >= 2

\* C35: a Floor Mismatch alarm is emitted only for a request whose effective
\* door state is open, that has a floor index and a height, whose device has
\* boundaries, whose index is one of the boundaries, and whose height is
\* more than TOLERANCE_MM away from the boundary at the index; a missing
\* value, an index out of range and absent or malformed boundaries give no
\* alarm and do not fail the request.
C35_FloorMismatchOnlyWhenDeviating ==
  [][ req'.seq # req.seq =>
        /\ FloorAlarmIn(req'.alarms) =>
             /\ req'.door_bool
             /\ req'.fl.cfi # None /\ req'.height # None
             /\ req'.fl.lookup = "found" /\ req'.fl.attr = "list"
             /\ req'.fl.cfi[1] \in 0..1
             /\ Abs(req'.height[1] - <<0, 100>>[req'.fl.cfi[1] + 1]) > 10
        /\ NoGround(req') => (~FloorAlarmIn(req'.alarms) /\ req'.status = 200) ]_vars

-----------------------------------------------------------------------------
(***************************************************************************)
(* The stored buckets between requests                                     *)
(***************************************************************************)

\* C36: after every request to check_alarm, completed or failed, every
\* stored bucket has a count of at least 1 and below BUCKET_COUNT_THRESHOLD:
\* a bucket that reached the threshold is not left in the list, whether the
\* creation of its alarm succeeded or not.
C36_StoredCountsBelowThreshold ==
  \A d \in DOMAIN bucket_counts : \A k \in DOMAIN bucket_counts[d] :
    \A i \in 1..Len(bucket_counts[d][k]) :
      /\ bucket_counts[d][k][i].count >= 1
      /\ bucket_counts[d][k][i].count < BUCKET_COUNT_THRESHOLD

\* C37: the centers of any two stored buckets of one device and key differ
\* by more than ZONE_MM.
C37_CentersMoreThanZoneApart ==
  \A d \in DOMAIN bucket_counts : \A k \in DOMAIN bucket_counts[d] :
    \A i \in 1..Len(bucket_counts[d][k]) : \A j \in 1..(i - 1) :
      \/ bucket_counts[d][k][i].center - bucket_counts[d][k][j].center > ZONE_MM
      \/ bucket_counts[d][k][j].center - bucket_counts[d][k][i].center > ZONE_MM

\* two buckets of one device and key are stored, after an observation that
\* lay outside the zone of the first
C37_Witness ==
  \E d \in DOMAIN bucket_counts : \E k \in DOMAIN bucket_counts[d] :
    /\ Len(bucket_counts[d][k]) = 2
    /\ \E n \in 1..Len(Get(obs_log, <<d, k>>, <<>>)) : obs_log[<<d, k>>][n].pre # {} /\ obs_log[<<d, k>>][n].count = 1

-----------------------------------------------------------------------------
(***************************************************************************)
(* Conservation of idle time in the live counters                          *)
(***************************************************************************)

CounterAt(s, key, f) == Get(Get(s, key, EmptyDict), f, 0)

\* C38: over calls of process_pack_out_sample without a flush, the last
\* accepted timestamp of a device never decreases, no counter of any date,
\* kind and floor decreases, and the idle milliseconds of the device, summed
\* over all floors and dates, are at most the time between its first and its
\* latest accepted sample: the first accepted sample of a device credits no
\* idle time and every later one credits at most the time since the accepted
\* sample before it.
C38_IdleTimeConserved ==
  [][ \A d \in Devices :
        /\ d \in DOMAIN state_inmem =>
             /\ d \in DOMAIN state_inmem'
             /\ state_inmem'[d].ts >= state_inmem[d].ts
             /\ TotalIdleMs(inmem', d) - TotalIdleMs(inmem, d) <= state_inmem'[d].ts - state_inmem[d].ts
        /\ d \notin DOMAIN state_inmem => TotalIdleMs(inmem', d) = 0
        /\ \A key \in DOMAIN inmem : \A f \in DOMAIN inmem[key] :
             key \in DOMAIN inmem' /\ f \in DOMAIN inmem'[key] /\ inmem'[key][f] >= inmem[key][f] ]_vars

\* the bound is met: accepted samples at 1 and at MaxTs, and the whole time
\* between them credited as idle
C38_Witness ==
  /\ "d1" \in DOMAIN state_inmem
  /\ state_inmem["d1"].ts = MaxTs
  /\ TotalIdleMs(inmem, "d1") = MaxTs - 1

-----------------------------------------------------------------------------
(***************************************************************************)
(* The two encodings of pack_out                                           *)
(***************************************************************************)

\* the floor and the door state the values report
FloorOfValues(v) == IF v.fl = "absent" THEN None ELSE Some(v.fl)
DoorOfValues(v) == IF v.d = "absent" THEN None ELSE Some(v.d = "open")

\* C39: a parser returns the same (floor, height, door) triple for the JSON
\* encoding and for the k=v encoding of the same values, for every floor
\* label, every height (0 included) and every door state (open, closed,
\* absent); and a height that is not a number comes back as missing, with
\* the floor and the door state of the values still returned.
C39_EncodingsAreEquivalent ==
  /\ \A parser \in {"live", "daily"} :
       ({<<parser, "json">>, <<parser, "kv">>} \subseteq DOMAIN pack.out)
         => pack.out[<<parser, "json">>] = pack.out[<<parser, "kv">>]
  /\ \A k \in DOMAIN pack.out :
       pack.v.h = "abc" => /\ pack.out[k].h = NaN
                           /\ pack.out[k].fl = FloorOfValues(pack.v)
                           /\ pack.out[k].d = DoorOfValues(pack.v)

-----------------------------------------------------------------------------
(***************************************************************************)
(* Shutdown of the scheduler loop                                          *)
(***************************************************************************)

\* C40: once the stop flag is set, a loop that is running exits, unless a
\* start clears the flag again; the tick handler in progress returns, the
\* wait of 0.5 s ends, and the flag is looked at in every iteration.
C40_StopEventuallyExitsLoop ==
  \A t \in Threads : (stop_event /\ pc[t] \in InLoop) ~> (pc[t] \notin InLoop \/ ~stop_event)

\* stop_scheduler has set the flag and waits in the join, and the loop of the
\* managed thread has exited after its last tick handler returned
C40_Witness ==
  /\ stop_event /\ stoppers = "join"
  /\ thread # None
  /\ sched_hist.ev = "tick_returned"
  /\ pc[IF thread = None THEN 1 ELSE thread[1]] = "dead"

=============================================================================
